---------------------------- MODULE Spec2Model ----------------------------
(***************************************************************************)
(* Model of dexompiler: the three revisions of the Dalvik instruction      *)
(* decoder (src/src/instruction.rs, src/src/dex_parsing/instruction.rs,    *)
(* src/src/dex_parsing/instruction/mod.rs) and the two basic-block graph   *)
(* builders (src/src/graph.rs with src/src/block.rs, and                   *)
(* src/src/dex_parsing/mod.rs).                                            *)
(*                                                                         *)
(* Words are 16-bit naturals.  A 32- or 64-bit value is kept as its        *)
(* sequence of 16-bit limbs, lowest limb first, because it does not fit    *)
(* the integers of the model checker; AsI32 gives the signed value of two  *)
(* limbs.  A usize that results from casting a negative i32 is kept as the *)
(* negative number: it is never a valid index.                             *)
(***************************************************************************)
EXTENDS Integers, Sequences, FiniteSets, TLC

VARIABLES
    raw_bytecode,   \* the method's instruction words (code.insns())
    dex,            \* the dex file the constant-pool items are looked up in
    cursor,         \* the offset decode is called with (decoder harness)
    decoded,        \* the last decoder call: which decoder, and its outcome
    gb,             \* state of DexControlFlowGraph::get_blocks (graph.rs)
    pb,             \* state of get_blocks (dex_parsing/mod.rs)
    run             \* state of a loop over the methods of a dex file

vars == <<raw_bytecode, dex, cursor, decoded, gb, pb, run>>

-----------------------------------------------------------------------------
(* Bounds of the model *)

\* longest buffer enumerated for the graph builders
MaxLen == 4
\* most words that follow the decoded word in the decoder harness
MaxTail == 4
\* most words that precede the decoded word in the decoder harness
MaxPad == 1

-----------------------------------------------------------------------------
(* Integer conversions (Rust `as` casts) *)

\* u8 as i8
AsI8(x) == IF x >= 128 THEN x - 256 ELSE x

\* u16 as i16
AsI16(x) == IF x >= 32768 THEN x - 65536 ELSE x

\* u16 as i8 (truncation to the low byte, then sign)
U16AsI8(x) == AsI8(x % 256)

\* u32 (limbs <<lo, hi>>) as i32
AsI32(l) == IF l[2] >= 32768 THEN (l[2] - 65536) * 65536 + l[1]
            ELSE l[2] * 65536 + l[1]

MaxI32 == 2147483647

\* whether the i32 addition a + b overflows, for a non-negative a
AddI32Overflows(a, b) == b > MaxI32 - a

\* the i32 addition a + b, wrapped when it overflows, for a non-negative a
WrappingAddI32(a, b) ==
    IF AddI32Overflows(a, b) THEN (a - MaxI32 - 1) + (b - MaxI32 - 1)
    ELSE a + b

\* split_word!: (low byte, high byte)
split_word(word) == <<word % 256, word \div 256>>

\* concat_words!, two words: (b << 16) | a
concat_words2(a, b) == <<a, b>>

\* concat_words!, four words: (b << 48) | (a << 32) | (d << 16) | c
concat_words4(a, b, c, d) == <<c, d, a, b>>

-----------------------------------------------------------------------------
(* Opcode catalog *)

\* the byte values the catalog leaves unassigned
ReservedBytes == (62..67) \cup {115} \cup (121..122) \cup (227..249)

None == [kind |-> "none"]

Some(v) == [kind |-> "some", v |-> v]

\* Opcode::from_u8 (FromPrimitive): the opcode of a byte, None for a byte that
\* names no opcode
OpcodeFromU8(byte) == IF byte \in ReservedBytes THEN None ELSE Some(byte)

\* (1..=3).contains(&immediate_args) under opcode byte 0x00: the word starts
\* a payload table (the off-by-one variant stops at 2)
IsPayloadMarkerUpToTwo(immediate_args) == immediate_args \in 1..2

IsPayloadMarker(immediate_args) == immediate_args \in 1..3

-----------------------------------------------------------------------------
(* Outcomes of a decoder call *)

\* Err(InstructionParsingError { byte, offset })
Err(byte, offset) == [kind |-> "err", byte |-> byte, offset |-> offset]

\* Ok(None)
OkNone == [kind |-> "none"]

\* the call does not return: index out of bounds, a failed expect, or an
\* arithmetic overflow with overflow checks
Panic == [kind |-> "panic"]

\* no loop over the methods of a dex file is running
RunIdle == [pc |-> "idle"]

-----------------------------------------------------------------------------
(* Constant-pool items (src/src/reference.rs) *)

DexFiles == {"complete", "empty"}

\* dex.get_string / get_type / ... : whether the dex file holds the item
DexHas(d, type, index) == d = "complete"

\* Item::from_short_index and Item::from_index: the item, or a panic of
\* expect() when the dex file does not hold it; a call site is never looked up
ItemFrom(d, type, index) ==
    IF type = "CallSite" \/ DexHas(d, type, index)
    THEN [kind |-> "item", type |-> type, index |-> index]
    ELSE Panic

-----------------------------------------------------------------------------
(* The decoder of src/src/instruction.rs *)

\* Argument::<tag>(v)
Arg(tag, v) == [tag |-> tag, v |-> v]

\* raw_bytecode[k] of a slice (0-based), 0 where the guard of the caller has
\* already decided that the read panics
WordAt(rb, k) == IF k < Len(rb) THEN rb[k + 1] ELSE 0

\* &raw_bytecode[offset..]
SliceFrom(raw, offset) == SubSeq(raw, offset + 1, Len(raw))

\* the (arguments, length) of one match arm that reads words 0..length-1, and
\* the Instruction built from them: a panic when a word it indexes is missing
\* or an item lookup fails
ArgInstruction(rb, opcode, offset, arguments, length) ==
    IF Len(rb) < length THEN Panic
    ELSE IF \E i \in 1..Len(arguments) :
                /\ arguments[i].tag = "ConstantPoolIndex"
                /\ arguments[i].v.kind = "panic"
         THEN Panic
    ELSE Some([opcode |-> opcode, offset |-> offset,
               arguments |-> arguments, length |-> length])

\* Instruction::try_from_raw_bytecode(raw_bytecode, offset, dex)
ArgTryFromRawBytecode(raw, offset, d) ==
    LET rb == SliceFrom(raw, offset)
        opcode_byte == split_word(rb[1])[1]
        immediate_args == split_word(rb[1])[2]
        opcode == OpcodeFromU8(opcode_byte)
        w1 == WordAt(rb, 1)
        w2 == WordAt(rb, 2)
        w3 == WordAt(rb, 3)
        w4 == WordAt(rb, 4)
        reg == Arg("PackedRegister", immediate_args)
        short(type) == Arg("ConstantPoolIndex", ItemFrom(d, type, w1))
        I(arguments, length) ==
            ArgInstruction(rb, opcode_byte, offset, arguments, length)
    IN
    IF opcode.kind = "none" THEN Err(opcode_byte, offset)
    ELSE CASE opcode_byte = 0 ->
                IF IsPayloadMarker(immediate_args) THEN OkNone ELSE I(<<>>, 1)
           [] opcode_byte \in {1, 4, 7} \cup (10..17) \cup {29, 30, 33, 39}
                               \cup (123..143) \cup (176..207) ->
                I(<<reg>>, 1)
           [] opcode_byte \in {2, 5, 8} ->
                I(<<reg, Arg("WideRegister", w1)>>, 2)
           [] opcode_byte \in (45..49) \cup (68..81) \cup (144..175) ->
                I(<<reg, Arg("PackedRegister", split_word(w1)[1]),
                    Arg("PackedRegister", split_word(w1)[2])>>, 2)
           [] opcode_byte \in {3, 6, 9} ->
                I(<<Arg("WideRegister", w1), Arg("WideRegister", w2)>>, 3)
           [] opcode_byte \in 216..226 ->
                I(<<reg, Arg("PackedRegister", split_word(w1)[1]),
                    Arg("ImmediateSignedByte", AsI8(split_word(w1)[2]))>>, 2)
           [] opcode_byte = 26 -> I(<<reg, short("String")>>, 2)
           [] opcode_byte \in {28, 31, 32, 34, 35} -> I(<<reg, short("Type")>>, 2)
           [] opcode_byte \in 82..109 -> I(<<reg, short("Field")>>, 2)
           [] opcode_byte = 254 -> I(<<reg, short("MethodHandle")>>, 2)
           [] opcode_byte = 255 -> I(<<reg, short("Prototype")>>, 2)
           [] opcode_byte = 27 ->
                I(<<reg, Arg("ConstantPoolIndex",
                             ItemFrom(d, "String", concat_words2(w1, w2)))>>, 3)
           [] opcode_byte \in {36, 37} ->
                I(<<reg, short("Type"), Arg("WideRegister", w2)>>, 3)
           [] opcode_byte \in (110..114) \cup (116..120) ->
                I(<<reg, short("Method"), Arg("WideRegister", w2)>>, 3)
           [] opcode_byte \in {252, 253} ->
                I(<<reg, short("CallSite"), Arg("WideRegister", w2)>>, 3)
           [] opcode_byte \in {250, 251} ->
                I(<<short("Method"),
                    Arg("ConstantPoolIndex", ItemFrom(d, "Prototype", w3))>>, 4)
           [] opcode_byte \in {21, 25} ->
                I(<<reg, Arg("ImmediateSignedHat", AsI16(w1))>>, 2)
           [] opcode_byte \in {20, 23} ->
                I(<<reg, Arg("ImmediateSigned32", concat_words2(w1, w2))>>, 3)
           [] opcode_byte = 24 ->
                I(<<reg, Arg("ImmediateSigned64",
                             concat_words4(w1, w2, w3, w4))>>, 5)
           [] opcode_byte = 18 ->
                I(<<Arg("PackedRegister", immediate_args \div 16),
                    Arg("ImmediateSignedNibble", immediate_args % 16)>>, 1)
           [] opcode_byte \in {19, 22} \cup (208..215) ->
                I(<<reg, Arg("ImmediateSignedShort", AsI16(w1))>>, 2)
           [] opcode_byte = 40 ->
                I(<<Arg("BranchTarget", immediate_args)>>, 1)
           [] opcode_byte = 41 -> I(<<Arg("BranchTarget", w1)>>, 2)
           [] opcode_byte \in 50..61 ->
                I(<<reg, Arg("BranchTarget", w1)>>, 2)
           [] opcode_byte = 38 ->
                I(<<reg, Arg("BranchTarget", AsI32(concat_words2(w1, w2)))>>, 3)
           [] opcode_byte = 42 ->
                I(<<Arg("BranchTarget", AsI32(concat_words2(w1, w2)))>>, 3)
           [] opcode_byte \in {43, 44} ->
                I(<<reg, Arg("BranchTarget", AsI32(concat_words2(w1, w2)))>>, 3)
           [] opcode_byte \in ReservedBytes -> Err(opcode_byte, offset)

\* Instruction::is_terminator
is_terminator(inst) ==
    inst.opcode \in (50..61) \cup (39..44) \cup (14..17)

\* Instruction::jump_target: Some((offset as i32 + target) as usize), None,
\* or a panic of the addition with overflow checks (oc)
jump_target(inst, oc) ==
    LET first == inst.arguments[1]
        last == inst.arguments[Len(inst.arguments)]
        sum(a) == IF oc /\ AddI32Overflows(inst.offset, a.v) THEN Panic
                  ELSE Some(WrappingAddI32(inst.offset, a.v))
    IN
    CASE inst.opcode \in {40, 41, 42} ->
            IF first.tag = "BranchTarget" THEN sum(first) ELSE None
      [] inst.opcode \in {43, 44} \cup (50..61) ->
            IF last.tag = "BranchTarget" THEN sum(last) ELSE None
      [] OTHER -> None

-----------------------------------------------------------------------------
(* The decoder of src/src/dex_parsing/instruction.rs *)

\* the length table with the method index of an invoke read from the word
\* after the opcode word
DexLengthAndMidxSecondWord(rb, opcode_byte, immediate_args, offset) ==
    LET L(length, m_idx) == [kind |-> "arm", length |-> length, m_idx |-> m_idx]
    IN
    CASE opcode_byte = 0 ->
            IF IsPayloadMarker(immediate_args) THEN OkNone ELSE L(1, None)
      [] opcode_byte \in {1, 4, 7} \cup (10..18) \cup {29, 30, 33, 39}
                          \cup (123..143) \cup (176..207) -> L(1, None)
      [] opcode_byte \in {2, 5, 8, 19, 21, 22, 25, 26, 28, 31, 32, 34, 35}
                          \cup (45..49) \cup (68..109) \cup (144..175)
                          \cup (208..226) \cup {254, 255} -> L(2, None)
      [] opcode_byte \in {3, 6, 9, 20, 23, 27} \cup (36..38) \cup {252, 253} ->
            L(3, None)
      [] opcode_byte \in (110..114) \cup (116..120) ->
            IF Len(rb) < 3 THEN Err(opcode_byte, offset)
            ELSE L(3, Some(rb[2]))
      [] opcode_byte \in {250, 251} ->
            IF Len(rb) < 4 THEN Err(opcode_byte, offset)
            ELSE L(4, Some(rb[3]))
      [] opcode_byte = 24 -> L(5, None)
      [] opcode_byte = 40 -> L(1, None)
      [] opcode_byte = 41 -> L(2, None)
      [] opcode_byte = 42 -> L(3, None)
      [] opcode_byte \in {43, 44} -> L(3, None)
      [] opcode_byte \in 50..61 -> L(2, None)
      [] opcode_byte \in ReservedBytes -> Err(opcode_byte, offset)

\* the match on opcode_byte: (length, m_idx), Ok(None) or an early Err
DexLengthAndMidx(rb, opcode_byte, immediate_args, offset) ==
    LET L(length, m_idx) == [kind |-> "arm", length |-> length, m_idx |-> m_idx]
    IN
    CASE opcode_byte = 0 ->
            IF IsPayloadMarker(immediate_args) THEN OkNone ELSE L(1, None)
      [] opcode_byte \in {1, 4, 7} \cup (10..18) \cup {29, 30, 33, 39}
                          \cup (123..143) \cup (176..207) -> L(1, None)
      [] opcode_byte \in {2, 5, 8, 19, 21, 22, 25, 26, 28, 31, 32, 34, 35}
                          \cup (45..49) \cup (68..109) \cup (144..175)
                          \cup (208..226) \cup {254, 255} -> L(2, None)
      [] opcode_byte \in {3, 6, 9, 20, 23, 27} \cup (36..38) \cup {252, 253} ->
            L(3, None)
      [] opcode_byte \in (110..114) \cup (116..120) ->
            IF Len(rb) < 3 THEN Err(opcode_byte, offset)
            ELSE L(3, Some(rb[3]))
      [] opcode_byte \in {250, 251} ->
            IF Len(rb) < 4 THEN Err(opcode_byte, offset)
            ELSE L(4, Some(rb[3]))
      [] opcode_byte = 24 -> L(5, None)
      [] opcode_byte = 40 -> L(1, None)
      [] opcode_byte = 41 -> L(2, None)
      [] opcode_byte = 42 -> L(3, None)
      [] opcode_byte \in {43, 44} -> L(3, None)
      [] opcode_byte \in 50..61 -> L(2, None)
      [] opcode_byte \in ReservedBytes -> Err(opcode_byte, offset)

\* the same without the check of the length against the remaining words
DexTryFromRawBytecodeUnchecked(raw, offset) ==
    LET rb == SliceFrom(raw, offset)
        opcode_byte == split_word(rb[1])[1]
        immediate_args == split_word(rb[1])[2]
        opcode == OpcodeFromU8(opcode_byte)
        arm == DexLengthAndMidx(rb, opcode_byte, immediate_args, offset)
    IN
    IF opcode.kind = "none" THEN Err(opcode_byte, offset)
    ELSE IF arm.kind # "arm" THEN arm
    ELSE Some([inst |-> [opcode |-> opcode_byte, m_idx |-> arm.m_idx],
               length |-> arm.length])

\* Instruction::try_from_raw_bytecode(raw_bytecode, offset)
DexTryFromRawBytecode(raw, offset) ==
    LET rb == SliceFrom(raw, offset)
        opcode_byte == split_word(rb[1])[1]
        immediate_args == split_word(rb[1])[2]
        opcode == OpcodeFromU8(opcode_byte)
        arm == DexLengthAndMidx(rb, opcode_byte, immediate_args, offset)
    IN
    IF opcode.kind = "none" THEN Err(opcode_byte, offset)
    ELSE IF arm.kind # "arm" THEN arm
    ELSE IF arm.length > Len(rb) THEN Err(opcode_byte, offset)
    ELSE Some([inst |-> [opcode |-> opcode_byte, m_idx |-> arm.m_idx],
               length |-> arm.length])

-----------------------------------------------------------------------------
(* The decoder of src/src/dex_parsing/instruction/mod.rs, with the operand   *)
(* types of src/src/dex_parsing/instruction/intermediate.rs                  *)

RegByte(v) == [r |-> "Byte", v |-> v]
RegWord(v) == [r |-> "Word", v |-> v]
RegPair(v, w) == [r |-> "Pair", v |-> v, w |-> w]

\* BranchOffset::<width>(v)
BranchOffset(width, v) == [bo |-> width, v |-> v]

\* split_registers!: (Byte(word & 0xF), Byte((word >> 4) as u8))
split_registers(word) == <<RegByte(word % 16), RegByte((word \div 16) % 256)>>

\* Register::get_pairs
get_pairs(word) ==
    <<RegPair(word % 16, (word % 16) + 1), RegPair(word \div 16, (word \div 16) + 1)>>

\* Register::get_dst_pair
get_dst_pair(word) ==
    <<RegPair(word % 16, (word % 16) + 1), RegByte(word \div 16)>>

\* Register::get_src_pair
get_src_pair(word) ==
    <<RegByte(word % 16), RegPair(word \div 16, (word \div 16) + 1)>>

\* word >> (i * 4) on a u16: with overflow checks a shift by 16 or more
\* panics, without them the shift amount is taken modulo 16
ShiftOverflows(i) == i * 4 >= 16

RECURSIVE Pow2(_)
Pow2(n) == IF n = 0 THEN 1 ELSE 2 * Pow2(n - 1)

NibbleAt(word, i) == (word \div Pow2((i * 4) % 16)) % 16

\* decode_invocation_parameters!: the register list, or a panic
decode_invocation_parameters(word, immediate_args, oc) ==
    LET sz == immediate_args \div 16
        reg(i) == IF i = 4 \/ i = 8 THEN RegByte(immediate_args % 16)
                  ELSE RegByte(NibbleAt(word, i))
    IN
    IF oc /\ \E i \in 0..(sz - 1) : i \notin {4, 8} /\ ShiftOverflows(i)
    THEN Panic
    ELSE Some([k \in 1..sz |-> reg(k - 1)])

\* (vc..=vc + immediate_args as u16).take(immediate_args).map(Register::Word):
\* the register list, or a panic of the u16 addition
range_registers(vc, immediate_args, oc) ==
    IF vc + immediate_args > 65535
    THEN IF oc THEN Panic ELSE Some(<<>>)
    ELSE Some([k \in 1..immediate_args |-> RegWord(vc + k - 1)])

\* identifiable_operation!: Get or Put of the kind the opcode names, or a
\* panic of immediate_args + 1 (u8) for a wide kind
identifiable_operation(opcode_byte, immediate_args, dst, oc) ==
    LET base == IF opcode_byte < 82 THEN 68
                ELSE IF opcode_byte < 96 THEN 82 ELSE 96
        n == opcode_byte - base
        kinds == <<"Int", "Wide", "Object", "Boolean", "Byte", "Char", "Short">>
        kind == kinds[(n % 7) + 1]
        dir == IF n < 7 THEN "Get" ELSE "Put"
    IN
    IF kind = "Wide"
    THEN IF immediate_args + 1 > 255 /\ oc THEN Panic
         ELSE Some(<<dir, kind, dst, RegByte((immediate_args + 1) % 256)>>)
    ELSE Some(<<dir, kind, dst>>)

\* the Unop and the register decoding of opcodes 0x7B..0x8F
UnopOf(opcode_byte) ==
    CASE opcode_byte = 123 -> <<"Neg", "Int", "split">>
      [] opcode_byte = 124 -> <<"Not", "Int", "split">>
      [] opcode_byte = 125 -> <<"Neg", "Long", "pairs">>
      [] opcode_byte = 126 -> <<"Not", "Long", "pairs">>
      [] opcode_byte = 127 -> <<"Neg", "Float", "split">>
      [] opcode_byte = 128 -> <<"Neg", "Double", "pairs">>
      [] opcode_byte = 129 -> <<"Convert", "Int", "Long", "dst_pair">>
      [] opcode_byte = 130 -> <<"Convert", "Int", "Float", "split">>
      [] opcode_byte = 131 -> <<"Convert", "Int", "Double", "dst_pair">>
      [] opcode_byte = 132 -> <<"Convert", "Long", "Int", "src_pair">>
      [] opcode_byte = 133 -> <<"Convert", "Long", "Float", "src_pair">>
      [] opcode_byte = 134 -> <<"Convert", "Long", "Double", "pairs">>
      [] opcode_byte = 135 -> <<"Convert", "Float", "Int", "split">>
      [] opcode_byte = 136 -> <<"Convert", "Float", "Long", "dst_pair">>
      [] opcode_byte = 137 -> <<"Convert", "Float", "Double", "dst_pair">>
      [] opcode_byte = 138 -> <<"Convert", "Double", "Int", "src_pair">>
      [] opcode_byte = 139 -> <<"Convert", "Double", "Long", "pairs">>
      [] opcode_byte = 140 -> <<"Convert", "Double", "Float", "src_pair">>
      [] opcode_byte = 141 -> <<"Convert", "Int", "Byte", "split">>
      [] opcode_byte = 142 -> <<"Convert", "Int", "Char", "split">>
      [] opcode_byte = 143 -> <<"Convert", "Int", "Short", "split">>

UnopRegisters(mode, immediate_args) ==
    CASE mode = "split" -> split_registers(immediate_args)
      [] mode = "pairs" -> get_pairs(immediate_args)
      [] mode = "dst_pair" -> get_dst_pair(immediate_args)
      [] mode = "src_pair" -> get_src_pair(immediate_args)

\* Instruction::<variant>(ops)
Inst(variant, ops) == [variant |-> variant, ops |-> ops]

\* the (instruction, length) of one match arm that reads words 0..length-1:
\* a panic when a word it indexes is missing or an operand computation
\* panics; otherwise *offset += length and Ok(Some(instruction))
EnumInstruction(rb, offset, variant, ops, length) ==
    IF Len(rb) < length THEN Panic
    ELSE IF \E i \in 1..Len(ops) : ops[i] = Panic THEN Panic
    ELSE Some([inst |-> Inst(variant, ops), length |-> length,
               offset |-> offset + length])

InvKindOf(opcode_byte) ==
    CASE opcode_byte \in {110, 116} -> "Virtual"
      [] opcode_byte \in {111, 117} -> "Super"
      [] opcode_byte \in {112, 118} -> "Direct"
      [] opcode_byte \in {113, 119} -> "Static"
      [] opcode_byte \in {114, 120} -> "Interface"

ConditionalOf(n) == <<"Eq", "Ne", "Lt", "Ge", "Gt", "Le">>[n + 1]

BinopOf(n) ==
    <<"Add", "Sub", "Mul", "Div", "Rem", "And", "Or", "Xor", "Shl", "Shr",
      "Ushr">>[n + 1]

\* Instruction::try_from_raw_bytecode(raw_bytecode, &mut offset)
EnumTryFromRawBytecode(raw, offset, oc) ==
    LET rb == SliceFrom(raw, offset)
        opcode_byte == split_word(rb[1])[1]
        immediate_args == split_word(rb[1])[2]
        opcode == OpcodeFromU8(opcode_byte)
        w1 == WordAt(rb, 1)
        w2 == WordAt(rb, 2)
        w3 == WordAt(rb, 3)
        w4 == WordAt(rb, 4)
        byte == [tag |-> "reg", reg |-> RegByte(immediate_args)]
        R(reg) == [tag |-> "reg", reg |-> reg]
        sr == split_registers(immediate_args)
        U16(v) == [tag |-> "ConstantPoolIndex", width |-> "U16", v |-> v]
        U32(v) == [tag |-> "ConstantPoolIndex", width |-> "U32", v |-> v]
        Imm(kind, v) == [tag |-> "ImmediateValue", kind |-> kind, v |-> v]
        Off(width, v) == [tag |-> "BranchOffset", off |-> BranchOffset(width, v)]
        Name(n) == [tag |-> "name", name |-> n]
        Opt(x) == IF x.kind = "panic" THEN Panic
                  ELSE [tag |-> "value", v |-> x.v]
        I(variant, ops, length) ==
            EnumInstruction(rb, offset, variant, ops, length)
        moves == <<"Move", "MoveWide", "MoveObject">>
        unop == UnopOf(opcode_byte)
        unregs == UnopRegisters(unop[Len(unop)], immediate_args)
    IN
    IF opcode.kind = "none" THEN Err(opcode_byte, offset)
    ELSE CASE opcode_byte = 0 ->
                IF IsPayloadMarker(immediate_args) THEN OkNone ELSE I("Nop", <<>>, 1)
           [] opcode_byte \in {1, 4, 7} ->
                I(moves[((opcode_byte - 1) \div 3) + 1], <<R(sr[1]), R(sr[2])>>, 1)
           [] opcode_byte \in {2, 5, 8} ->
                I(moves[((opcode_byte - 2) \div 3) + 1],
                  <<byte, R(RegWord(w1))>>, 2)
           [] opcode_byte \in {3, 6, 9} ->
                I(moves[((opcode_byte - 3) \div 3) + 1],
                  <<R(RegWord(w1)), R(RegWord(w2))>>, 3)
           [] opcode_byte = 10 -> I("MoveResult", <<byte>>, 1)
           [] opcode_byte = 11 -> I("MoveResultWide", <<byte>>, 1)
           [] opcode_byte = 12 -> I("MoveResultObject", <<byte>>, 1)
           [] opcode_byte = 13 -> I("MoveException", <<byte>>, 1)
           [] opcode_byte = 14 -> I("Return", <<Name("None")>>, 1)
           [] opcode_byte = 15 -> I("Return", <<byte>>, 1)
           [] opcode_byte = 16 -> I("ReturnWide", <<byte>>, 1)
           [] opcode_byte = 17 -> I("ReturnObject", <<byte>>, 1)
           [] opcode_byte = 18 ->
                I("Const", <<R(RegByte((immediate_args \div 16) * 16)),
                             Imm("Signed8", immediate_args % 16)>>, 1)
           [] opcode_byte \in {19, 21, 22, 25} ->
                I("Const", <<byte, Imm("Signed16", AsI16(w1))>>, 2)
           [] opcode_byte = 20 ->
                I("Const", <<byte, Imm("Arbitrary32", concat_words2(w1, w2))>>, 3)
           [] opcode_byte = 23 ->
                I("Const",
                  <<byte, Imm("Signed32", AsI32(concat_words2(w1, w2)))>>, 3)
           [] opcode_byte = 24 ->
                I("Const",
                  <<byte, Imm("Arbitrary64", concat_words4(w1, w2, w3, w4))>>, 5)
           [] opcode_byte = 26 -> I("ConstString", <<byte, U16(w1)>>, 2)
           [] opcode_byte = 27 ->
                I("ConstString", <<byte, U32(concat_words2(w1, w2))>>, 3)
           [] opcode_byte = 28 -> I("ConstClass", <<byte, U16(w1)>>, 2)
           [] opcode_byte = 29 -> I("MonitorEnter", <<byte>>, 1)
           [] opcode_byte = 30 -> I("MonitorExit", <<byte>>, 1)
           [] opcode_byte = 31 -> I("CheckCast", <<byte, U16(w1)>>, 2)
           [] opcode_byte = 32 ->
                I("InstanceOf", <<R(sr[1]), R(sr[2]), U16(w1)>>, 2)
           [] opcode_byte = 33 -> I("ArrayLength", <<R(sr[1]), R(sr[2])>>, 1)
           [] opcode_byte = 34 -> I("NewInstance", <<byte, U16(w1)>>, 2)
           [] opcode_byte = 35 ->
                I("NewArray", <<R(sr[1]), R(sr[2]), U16(w1)>>, 2)
           [] opcode_byte = 36 ->
                I("FilledNewArray",
                  <<U16(w1),
                    Opt(decode_invocation_parameters(w2, immediate_args, oc))>>,
                  3)
           [] opcode_byte = 37 ->
                I("FilledNewArray",
                  <<U16(w1), Opt(range_registers(w2, immediate_args, oc))>>, 3)
           [] opcode_byte = 38 ->
                I("FillArrayData",
                  <<byte, Off("I32", AsI32(concat_words2(w1, w2)))>>, 3)
           [] opcode_byte = 39 -> I("Throw", <<byte>>, 1)
           [] opcode_byte = 40 ->
                I("Goto", <<Off("I8", AsI8(immediate_args))>>, 1)
           [] opcode_byte = 41 -> I("Goto", <<Off("I16", AsI16(w1))>>, 2)
           [] opcode_byte = 42 ->
                I("Goto", <<Off("I32", AsI32(concat_words2(w1, w2)))>>, 3)
           [] opcode_byte \in {43, 44} ->
                I("Switch",
                  <<Name(IF opcode_byte = 43 THEN "Packed" ELSE "Sparse"), byte,
                    Off("I32", AsI32(concat_words2(w1, w2)))>>, 3)
           [] opcode_byte \in 45..49 ->
                I("Cmp", <<byte, R(RegByte(split_word(w1)[1])),
                           R(RegByte(split_word(w1)[2]))>>, 2)
           [] opcode_byte \in 50..61 ->
                I("If", <<Name(IF opcode_byte < 56 THEN "Test" ELSE "Testz"),
                          Name(ConditionalOf((opcode_byte - 50) % 6)),
                          R(sr[1]), R(sr[2]), Off("I8", U16AsI8(w1))>>, 2)
           [] opcode_byte \in 68..81 ->
                I("ArrayOp",
                  <<Opt(identifiable_operation(opcode_byte, immediate_args,
                                               RegByte(immediate_args), oc)),
                    R(split_registers(w1)[1]), R(split_registers(w1)[2])>>, 2)
           [] opcode_byte \in 82..95 ->
                I("InstanceOp",
                  <<Opt(identifiable_operation(opcode_byte, immediate_args,
                                               sr[1], oc)),
                    R(sr[2]), U16(w1)>>, 2)
           [] opcode_byte \in 96..109 ->
                I("StaticOp",
                  <<Opt(identifiable_operation(opcode_byte, immediate_args,
                                               RegByte(immediate_args), oc)),
                    U16(w1)>>, 2)
           [] opcode_byte \in 110..114 ->
                I("InvokeKind",
                  <<Name(InvKindOf(opcode_byte)), U16(w1),
                    Opt(decode_invocation_parameters(w2, immediate_args, oc))>>,
                  3)
           [] opcode_byte \in 116..120 ->
                I("InvokeKind",
                  <<Name(InvKindOf(opcode_byte)), U16(w1),
                    Opt(range_registers(w2, immediate_args, oc))>>, 3)
           [] opcode_byte \in 123..143 ->
                I("Unop", <<[tag |-> "Unop", unop |-> SubSeq(unop, 1, Len(unop) - 1)],
                            R(unregs[1]), R(unregs[2])>>, 1)
           [] opcode_byte \in 144..154 ->
                I("Binop", <<Name(BinopOf(opcode_byte - 144)), Name("Int"), byte,
                             R(RegByte(split_word(w1)[1])),
                             R(RegByte(split_word(w1)[2]))>>, 2)
           [] OTHER -> Err(opcode_byte, offset)

-----------------------------------------------------------------------------
(* Basic blocks and the block container (src/src/block.rs).  A block is     *)
(* known by its index in BlockContainer::blocks; prev and succ hold indices *)

\* BasicBlock::new(offset, exc_entry)
BasicBlockNew(offset, exc_entry) ==
    [offset |-> offset, exc_entry |-> exc_entry, prev |-> <<>>,
     instructions |-> <<>>, succ |-> <<>>]

\* an add_prev that loses the block: edges would no longer come in pairs
add_prev_forgotten(blocks, b, block) == blocks

\* blocks[b].add_prev(block)
add_prev(blocks, b, block) == [blocks EXCEPT ![b].prev = Append(@, block)]

\* blocks[b].add_succ(block)
add_succ(blocks, b, block) == [blocks EXCEPT ![b].succ = Append(@, block)]

\* blocks[b].push(instruction)
push(blocks, b, instruction) ==
    [blocks EXCEPT ![b].instructions = Append(@, instruction)]

\* BlockContainer::new()
BlockContainerNew == [blocks |-> <<>>, offsets |-> {}]

\* a lookup that takes any other block that starts at or before the offset
get_block_at_offset_below(container, borrowed, offset, raw) ==
    LET found == {i \in 1..Len(container.blocks) :
                     i \notin borrowed /\ container.blocks[i].offset <= offset}
    IN
    IF found # {}
    THEN [kind |-> "block", container |-> container,
          block |-> CHOOSE i \in found : \A j \in found : i <= j]
    ELSE IF offset < 0 \/ offset >= Len(raw) THEN Panic
    ELSE [kind |-> "block",
          container |->
              [blocks |-> Append(container.blocks,
                                 BasicBlockNew(offset, raw[offset + 1] = 13)),
               offsets |-> container.offsets \cup {offset}],
          block |-> Len(container.blocks) + 1]

\* BlockContainer::get_block_at_offset(offset, raw_bytecode) while the blocks
\* of `borrowed` are mutably borrowed (try_borrow fails on them, so the
\* search passes them over): the first other block with that offset, else a
\* new block pushed at the end, or the panic of raw_bytecode[offset]
get_block_at_offset(container, borrowed, offset, raw) ==
    LET found == {i \in 1..Len(container.blocks) :
                     i \notin borrowed /\ container.blocks[i].offset = offset}
    IN
    IF found # {}
    THEN [kind |-> "block", container |-> container,
          block |-> CHOOSE i \in found : \A j \in found : i <= j]
    ELSE IF offset < 0 \/ offset >= Len(raw) THEN Panic
    ELSE [kind |-> "block",
          container |->
              [blocks |-> Append(container.blocks,
                                 BasicBlockNew(offset, raw[offset + 1] = 13)),
               offsets |-> container.offsets \cup {offset}],
          block |-> Len(container.blocks) + 1]

-----------------------------------------------------------------------------
(* DexControlFlowGraph::get_blocks (src/src/graph.rs).  gb.pc is "start"    *)
(* before line 75, "loop" at the head of the while loop, "if" between the   *)
(* two edges of a conditional branch, "done" once blocks is returned and    *)
(* "panic" when the call has panicked.                                      *)

\* the state of get_blocks
GraphState(pc, block_container, offsets, block, inst) ==
    [pc |-> pc, block_container |-> block_container, offsets |-> offsets,
     block |-> block, inst |-> inst]

GraphIdle == GraphState("idle", BlockContainerNew, <<>>, 0, None)

\* lines 75-77: the container, the offsets to visit and the block at offset 0
GraphStart ==
    /\ gb.pc = "start"
    /\ LET r == get_block_at_offset(BlockContainerNew, {}, 0, raw_bytecode)
       IN gb' = IF r.kind = "panic"
                THEN GraphState("panic", BlockContainerNew, <<0>>, 0, None)
                ELSE GraphState("loop", r.container, <<0>>, r.block, None)
    /\ UNCHANGED <<raw_bytecode, dex, cursor, decoded, pb, run>>

\* line 79: offsets.pop()
LoopOffset == gb.offsets[Len(gb.offsets)]
LoopPopped == SubSeq(gb.offsets, 1, Len(gb.offsets) - 1)

\* lines 83-85: the block this iteration fills
LoopBlock ==
    IF LoopOffset \in gb.block_container.offsets
    THEN get_block_at_offset(gb.block_container, {}, LoopOffset,
                             raw_bytecode).block
    ELSE gb.block

\* line 88, before unwrap()
LoopDecoded == ArgTryFromRawBytecode(raw_bytecode, LoopOffset, dex)

\* the loop body runs on an offset inside the buffer
InLoop ==
    /\ gb.pc = "loop"
    /\ gb.offsets # <<>>
    /\ LoopOffset < Len(raw_bytecode)

\* the body runs on a decoded instruction whose opcode is in `opcodes`
InArm(opcodes) ==
    /\ InLoop
    /\ LoopDecoded.kind = "some"
    /\ LoopDecoded.v.opcode \in opcodes

\* an offset that does not move on
NewOffsetStays == LoopOffset

\* line 89
NewOffset == LoopOffset + LoopDecoded.v.length

\* line 78: no offset is left; line 152 returns the blocks
GraphExhausted ==
    /\ gb.pc = "loop"
    /\ gb.offsets = <<>>
    /\ gb' = [gb EXCEPT !.pc = "done"]
    /\ UNCHANGED <<raw_bytecode, dex, cursor, decoded, pb, run>>

\* lines 80-82: break at the end of the buffer; line 152 returns the blocks
GraphBreak ==
    /\ gb.pc = "loop"
    /\ gb.offsets # <<>>
    /\ LoopOffset >= Len(raw_bytecode)
    /\ gb' = [gb EXCEPT !.pc = "done", !.offsets = LoopPopped]
    /\ UNCHANGED <<raw_bytecode, dex, cursor, decoded, pb, run>>

\* line 88: the decoder panics, or unwrap() panics on its Err
GraphDecodeFails ==
    /\ InLoop
    /\ LoopDecoded.kind \in {"panic", "err"}
    /\ gb' = [gb EXCEPT !.pc = "panic", !.offsets = LoopPopped,
                        !.block = LoopBlock]
    /\ UNCHANGED <<raw_bytecode, dex, cursor, decoded, pb, run>>

\* line 88: Ok(None), the body of the if let is skipped
GraphPayload ==
    /\ InLoop
    /\ LoopDecoded.kind = "none"
    /\ gb' = [gb EXCEPT !.offsets = LoopPopped, !.block = LoopBlock]
    /\ UNCHANGED <<raw_bytecode, dex, cursor, decoded, pb, run>>

\* the edge block -> successor of lines 96-97, 100-102, 113-114, 129-130
Linked(container, block, successor) ==
    [container EXCEPT
        !.blocks = add_prev(add_succ(@, block, successor), successor, block)]

\* lines 92-97: a conditional branch, the edge to the block at its target
GraphIfTarget ==
    /\ InArm(50..61)
    /\ \E oc \in BOOLEAN :
          LET inst == LoopDecoded.v
              target == jump_target(inst, oc)
              successor ==
                  IF target.kind = "some"
                  THEN get_block_at_offset(gb.block_container, {LoopBlock},
                                           target.v, raw_bytecode)
                  ELSE Panic
          IN gb' = IF successor.kind = "panic"
                   THEN GraphState("panic", gb.block_container, LoopPopped,
                                   LoopBlock, None)
                   ELSE GraphState("if",
                            Linked(successor.container, LoopBlock,
                                   successor.block),
                            LoopPopped, LoopBlock, Some(inst))
    /\ UNCHANGED <<raw_bytecode, dex, cursor, decoded, pb, run>>

\* lines 99-106: the block at the offset of the conditional branch takes the
\* branch and becomes a successor; the offset after the branch is visited next
GraphIfBlock ==
    /\ gb.pc = "if"
    /\ LET inst == gb.inst.v
           new_block == get_block_at_offset(gb.block_container, {gb.block},
                                            inst.offset, raw_bytecode)
           linked == Linked(new_block.container, gb.block, new_block.block)
       IN gb' = GraphState("loop",
                    [linked EXCEPT
                        !.blocks = push(@, new_block.block, inst)],
                    Append(gb.offsets, inst.offset + inst.length),
                    gb.block, None)
    /\ UNCHANGED <<raw_bytecode, dex, cursor, decoded, pb, run>>

\* lines 108-117: a goto
GraphGoto ==
    /\ InArm(40..42)
    /\ \E oc \in BOOLEAN :
          LET inst == LoopDecoded.v
              pushed == [gb.block_container EXCEPT
                            !.blocks = push(@, LoopBlock, inst)]
              target == jump_target(inst, oc)
              successor ==
                  IF target.kind = "some"
                  THEN get_block_at_offset(pushed, {LoopBlock}, target.v,
                                           raw_bytecode)
                  ELSE Panic
          IN gb' = IF successor.kind = "panic"
                   THEN GraphState("panic", pushed, LoopPopped, LoopBlock,
                                   None)
                   ELSE GraphState("loop",
                            Linked(successor.container, LoopBlock,
                                   successor.block),
                            Append(LoopPopped, NewOffset), LoopBlock, None)
    /\ UNCHANGED <<raw_bytecode, dex, cursor, decoded, pb, run>>

\* lines 118-124: a return or a throw
GraphReturnOrThrow ==
    /\ InArm((14..17) \cup {39})
    /\ LET pushed == [gb.block_container EXCEPT
                         !.blocks = push(@, LoopBlock, LoopDecoded.v)]
       IN gb' = IF /\ NewOffset < Len(raw_bytecode)
                   /\ raw_bytecode[NewOffset + 1] # 0
                THEN GraphState("loop",
                         get_block_at_offset(pushed, {LoopBlock}, NewOffset,
                                             raw_bytecode).container,
                         Append(LoopPopped, NewOffset), LoopBlock, None)
                ELSE GraphState("loop", pushed, LoopPopped, LoopBlock, None)
    /\ UNCHANGED <<raw_bytecode, dex, cursor, decoded, pb, run>>

\* lines 125-133: any other instruction
GraphOther ==
    /\ InArm((0..255) \ ((50..61) \cup (40..42) \cup (14..17) \cup {39}))
    /\ LET pushed == [gb.block_container EXCEPT
                         !.blocks = push(@, LoopBlock, LoopDecoded.v)]
           new_block == get_block_at_offset(pushed, {LoopBlock}, NewOffset,
                                            raw_bytecode)
       IN gb' = GraphState("loop",
                    IF NewOffset \in pushed.offsets
                    THEN Linked(new_block.container, LoopBlock,
                                new_block.block)
                    ELSE pushed,
                    Append(LoopPopped, NewOffset), LoopBlock, None)
    /\ UNCHANGED <<raw_bytecode, dex, cursor, decoded, pb, run>>

GraphNext ==
    \/ GraphStart
    \/ GraphExhausted
    \/ GraphBreak
    \/ GraphDecodeFails
    \/ GraphPayload
    \/ GraphIfTarget
    \/ GraphIfBlock
    \/ GraphGoto
    \/ GraphReturnOrThrow
    \/ GraphOther

-----------------------------------------------------------------------------
(* get_blocks of src/src/dex_parsing/mod.rs.  It calls a decoder with the    *)
(* signature of src/src/dex_parsing/instruction.rs whose instructions also  *)
(* carry offset() and dest(); that revision of the decoder is not in the    *)
(* repository, so the two accessors follow the specification: offset() is   *)
(* the offset the instruction was decoded at and dest() the resolved        *)
(* absolute target, offset + signed delta.                                  *)

\* inst.dest().as_branch_target() of a branch or switch decoded at offset
dest(raw, offset) ==
    LET rb == SliceFrom(raw, offset)
        opcode_byte == split_word(rb[1])[1]
        immediate_args == split_word(rb[1])[2]
    IN
    CASE opcode_byte = 40 -> Some(offset + AsI8(immediate_args))
      [] opcode_byte = 41 \/ opcode_byte \in 50..61 ->
            Some(offset + AsI16(WordAt(rb, 1)))
      [] opcode_byte \in {38, 42, 43, 44} ->
            Some(offset + AsI32(concat_words2(WordAt(rb, 1), WordAt(rb, 2))))
      [] OTHER -> None

\* Instruction::try_from_raw_bytecode(raw_bytecode, offset) as get_blocks
\* uses it: (inst, length), with inst.offset() and inst.dest()
BlocksTryFromRawBytecode(raw, offset) ==
    LET res == DexTryFromRawBytecode(raw, offset)
    IN IF res.kind # "some" THEN res
       ELSE Some([inst |-> [opcode |-> res.v.inst.opcode,
                            m_idx |-> res.v.inst.m_idx,
                            offset |-> offset,
                            dest |-> dest(raw, offset)],
                  length |-> res.v.length])

\* BasicBlock::new() of the dex_parsing revision: no offset, no exc_entry
BlockPtrNew == [prev |-> <<>>, instructions |-> <<>>, succ |-> <<>>]

\* the state of get_blocks
BlocksState(pc, instructions, block_starts, edges, offset, blocks, index_mapping) ==
    [pc |-> pc, instructions |-> instructions, block_starts |-> block_starts,
     edges |-> edges, offset |-> offset, blocks |-> blocks,
     index_mapping |-> index_mapping]

BlocksIdle == BlocksState("idle", <<>>, <<>>, <<>>, 0, <<>>, <<>>)

\* lines 87-90
BlocksStart ==
    /\ pb.pc = "start"
    /\ pb' = BlocksState("scan", <<>>, <<0>>, <<>>, 0, <<>>, <<>>)
    /\ UNCHANGED <<raw_bytecode, dex, cursor, decoded, gb, run>>

\* line 92
ScanDecoded == BlocksTryFromRawBytecode(raw_bytecode, pb.offset)

InScan == pb.pc = "scan" /\ pb.offset < Len(raw_bytecode)

InScanArm(opcodes) ==
    /\ InScan
    /\ ScanDecoded.kind = "some"
    /\ ScanDecoded.v.inst.opcode \in opcodes

\* *block_starts.last().unwrap()
current_block_start == pb.block_starts[Len(pb.block_starts)]

\* lines 94 and 133 around the match on the opcode
Scanned(block_starts, edges) ==
    [pb EXCEPT !.offset = pb.offset + ScanDecoded.v.length,
               !.instructions = Append(@, ScanDecoded.v.inst),
               !.block_starts = block_starts,
               !.edges = edges]

\* line 91: the scan reaches the end of the buffer
BlocksScanEnd ==
    /\ pb.pc = "scan"
    /\ pb.offset >= Len(raw_bytecode)
    /\ pb' = [pb EXCEPT !.pc = "partition"]
    /\ UNCHANGED <<raw_bytecode, dex, cursor, decoded, gb, run>>

\* line 135: Ok(None) => break
BlocksPayload ==
    /\ InScan
    /\ ScanDecoded.kind = "none"
    /\ pb' = [pb EXCEPT !.pc = "partition"]
    /\ UNCHANGED <<raw_bytecode, dex, cursor, decoded, gb, run>>

\* line 136: Err(_) => return Err(..)
BlocksDecodeErr ==
    /\ InScan
    /\ ScanDecoded.kind = "err"
    /\ pb' = [pb EXCEPT !.pc = "err"]
    /\ UNCHANGED <<raw_bytecode, dex, cursor, decoded, gb, run>>

\* lines 96-104: a conditional branch
BlocksIf ==
    /\ InScanArm(50..61)
    /\ LET next == pb.offset + ScanDecoded.v.length
           target == ScanDecoded.v.inst.dest.v
       IN pb' = Scanned(pb.block_starts \o <<next, target>>,
                        pb.edges \o <<<<current_block_start, next>>,
                                      <<current_block_start, target>>>>)
    /\ UNCHANGED <<raw_bytecode, dex, cursor, decoded, gb, run>>

\* lines 105-110: a goto
BlocksGoto ==
    /\ InScanArm(40..42)
    /\ LET target == ScanDecoded.v.inst.dest.v
       IN pb' = Scanned(Append(pb.block_starts, target),
                        Append(pb.edges,
                               <<current_block_start, target>>))
    /\ UNCHANGED <<raw_bytecode, dex, cursor, decoded, gb, run>>

\* lines 124-129: the targets i, i+2, .. of the payload whose target words
\* start at word `first` of the buffer, appended to block_starts and edges;
\* a panic when a target word lies outside the buffer or, with overflow
\* checks, when current_offset + relative_target overflows
RECURSIVE switch_targets(_, _, _, _, _, _, _, _)
switch_targets(raw, first, i, size, current_offset, source, acc, oc) ==
    IF i >= size * 2 THEN acc
    ELSE IF first + i + 1 >= Len(raw) THEN Panic
    ELSE LET relative_target ==
                 AsI32(concat_words2(raw[first + i + 1], raw[first + i + 2]))
             target == WrappingAddI32(current_offset, relative_target)
         IN IF oc /\ AddI32Overflows(current_offset, relative_target)
            THEN Panic
            ELSE switch_targets(raw, first, i + 2, size, current_offset,
                     source,
                     [kind |-> "targets",
                      block_starts |-> Append(acc.block_starts, target),
                      edges |-> Append(acc.edges, <<source, target>>)],
                     oc)

\* lines 111-130: a packed-switch or a sparse-switch.  A target below
\* zero is a usize above every buffer length.
BlocksSwitch ==
    /\ InScanArm({43, 44})
    /\ \E oc \in BOOLEAN :
          LET inst == ScanDecoded.v.inst
              target == inst.dest.v
              size == raw_bytecode[target + 2]
              first == IF inst.opcode = 43 THEN target + 4
                       ELSE target + 2 + size * 2
              targets ==
                  switch_targets(raw_bytecode, first, 0, size, inst.offset,
                      current_block_start,
                      [kind |-> "targets", block_starts |-> pb.block_starts,
                       edges |-> pb.edges],
                      oc)
          IN pb' = IF target < 0 \/ target + 1 > Len(raw_bytecode)
                   THEN [pb EXCEPT !.pc = "err"]
                   ELSE IF target + 1 >= Len(raw_bytecode)
                   THEN [pb EXCEPT !.pc = "panic"]
                   ELSE IF first > Len(raw_bytecode)
                   THEN [pb EXCEPT !.pc = "panic"]
                   ELSE IF targets.kind = "panic"
                   THEN [pb EXCEPT !.pc = "panic"]
                   ELSE Scanned(targets.block_starts, targets.edges)
    /\ UNCHANGED <<raw_bytecode, dex, cursor, decoded, gb, run>>

\* line 131: any other instruction
BlocksOther ==
    /\ InScanArm((0..255) \ ((50..61) \cup (40..44)))
    /\ pb' = Scanned(pb.block_starts, pb.edges)
    /\ UNCHANGED <<raw_bytecode, dex, cursor, decoded, gb, run>>

\* a set that keeps only the entry and loses the discovered block starts
block_start_set_entry_only(block_starts) == {block_starts[1]}

\* block_starts.into_iter().collect::<HashSet<usize>>()
block_start_set(block_starts) ==
    {block_starts[i] : i \in 1..Len(block_starts)}

\* a partition that opens a block at every instruction
RECURSIVE into_block_each(_, _, _, _, _)
into_block_each(instructions, i, starts, blocks, index_mapping) ==
    IF i > Len(instructions) THEN <<blocks, index_mapping>>
    ELSE into_block_each(instructions, i + 1, starts,
             push(Append(blocks, BlockPtrNew), Len(blocks) + 1,
                  instructions[i]),
             Append(index_mapping, <<instructions[i].offset, Len(blocks) + 1>>))

\* lines 142-149 from instruction i on: (blocks, index_mapping)
RECURSIVE into_block(_, _, _, _, _)
into_block(instructions, i, starts, blocks, index_mapping) ==
    IF i > Len(instructions) THEN <<blocks, index_mapping>>
    ELSE LET inst == instructions[i]
             opened == IF inst.offset \in starts
                       THEN Append(blocks, BlockPtrNew) ELSE blocks
             mapped == IF inst.offset \in starts
                       THEN Append(index_mapping,
                                   <<inst.offset, Len(opened)>>)
                       ELSE index_mapping
         IN into_block(instructions, i + 1, starts,
                       push(opened, Len(opened), inst), mapped)

\* lines 139-149: the instructions are cut into blocks at the block starts
BlocksPartition ==
    /\ pb.pc = "partition"
    /\ LET cut == into_block(pb.instructions, 1,
                             block_start_set(pb.block_starts), <<>>, <<>>)
       IN pb' = [pb EXCEPT !.pc = "link", !.blocks = cut[1],
                           !.index_mapping = cut[2]]
    /\ UNCHANGED <<raw_bytecode, dex, cursor, decoded, gb, run>>

\* index_mapping.get(&offset)
index_of(index_mapping, offset) ==
    IF \E k \in 1..Len(index_mapping) : index_mapping[k][1] = offset
    THEN Some(index_mapping[CHOOSE k \in 1..Len(index_mapping) :
                                index_mapping[k][1] = offset][2])
    ELSE None

\* lines 150-162: the next edge is linked
BlocksLink ==
    /\ pb.pc = "link"
    /\ pb.edges # <<>>
    /\ LET src_index == index_of(pb.index_mapping, Head(pb.edges)[1])
           dst_index == index_of(pb.index_mapping, Head(pb.edges)[2])
       IN /\ src_index.kind = "some"
          /\ dst_index.kind = "some"
          /\ pb' = [pb EXCEPT
                      !.edges = Tail(@),
                      !.blocks = add_prev(add_succ(@, src_index.v,
                                                   dst_index.v),
                                          dst_index.v, src_index.v)]
    /\ UNCHANGED <<raw_bytecode, dex, cursor, decoded, gb, run>>

\* lines 153 and 157: the source or the destination of the next edge starts
\* no block, return Err(..)
BlocksNoIndex ==
    /\ pb.pc = "link"
    /\ pb.edges # <<>>
    /\ \/ index_of(pb.index_mapping, Head(pb.edges)[1]).kind = "none"
       \/ index_of(pb.index_mapping, Head(pb.edges)[2]).kind = "none"
    /\ pb' = [pb EXCEPT !.pc = "err"]
    /\ UNCHANGED <<raw_bytecode, dex, cursor, decoded, gb, run>>

\* line 164: Ok(blocks)
BlocksReturn ==
    /\ pb.pc = "link"
    /\ pb.edges = <<>>
    /\ pb' = [pb EXCEPT !.pc = "done"]
    /\ UNCHANGED <<raw_bytecode, dex, cursor, decoded, gb, run>>

BlocksNext ==
    \/ BlocksStart
    \/ BlocksScanEnd
    \/ BlocksPayload
    \/ BlocksDecodeErr
    \/ BlocksIf
    \/ BlocksGoto
    \/ BlocksSwitch
    \/ BlocksOther
    \/ BlocksPartition
    \/ BlocksLink
    \/ BlocksNoIndex
    \/ BlocksReturn

-----------------------------------------------------------------------------
(* Decoder harness: one call of a decoder on a buffer at a cursor, as         *)
(* src/src/main.rs, get_op_seq and the graph builders call it                *)

\* immediate-args bytes tried with every opcode byte
CommonImmediateArgs == {2, 255}

\* immediate-args bytes of the invoke kinds: argument counts 1, 4, 5 and 6
InvokeImmediateArgs == {16, 67, 83, 96}

\* opcode bytes tried with every immediate-args byte
SpecialOpcodeBytes == {0, 40}

\* the words decode is called on
FirstWords ==
    {op + 256 * imm : op \in 0..255, imm \in CommonImmediateArgs}
        \cup {op + 256 * imm : op \in SpecialOpcodeBytes, imm \in 0..255}
        \cup {op + 256 * imm : op \in 110..114, imm \in InvokeImmediateArgs}

\* the i-th word that follows, in three families: small positive words,
\* words with the sign bit set, and words whose two bytes differ in sign
TailWord(k, i) ==
    CASE k = 1 -> i
      [] k = 2 -> 65536 - i
      [] k = 3 -> 256 * i + 128

TailWords(k, n) == [i \in 1..n |-> TailWord(k, i)]

Pad(p) == [i \in 1..p |-> 0]

NoCall == [by |-> "none"]

DecodeInit ==
    /\ \E p \in 0..MaxPad, w \in FirstWords, k \in 1..3, n \in 0..MaxTail :
          /\ raw_bytecode = Pad(p) \o <<w>> \o TailWords(k, n)
          /\ cursor = p
    /\ dex = "complete"
    /\ decoded = NoCall
    /\ gb = GraphIdle
    /\ pb = BlocksIdle
    /\ run = RunIdle

\* a call of the decoder of src/src/instruction.rs
ArgDecode ==
    /\ decoded = NoCall
    /\ cursor < Len(raw_bytecode)
    /\ \E d \in DexFiles :
          /\ dex' = d
          /\ decoded' = [by |-> "arg", offset |-> cursor,
                         res |-> ArgTryFromRawBytecode(raw_bytecode, cursor, d)]
    /\ UNCHANGED <<raw_bytecode, cursor, gb, pb, run>>

\* a call of the decoder of src/src/dex_parsing/instruction.rs
DexDecode ==
    /\ decoded = NoCall
    /\ cursor < Len(raw_bytecode)
    /\ decoded' = [by |-> "dex", offset |-> cursor,
                   res |-> DexTryFromRawBytecode(raw_bytecode, cursor)]
    /\ UNCHANGED <<raw_bytecode, dex, cursor, gb, pb, run>>

\* a call of the decoder of src/src/dex_parsing/instruction/mod.rs, which
\* advances the caller's offset when it returns an instruction
EnumDecode ==
    /\ decoded = NoCall
    /\ cursor < Len(raw_bytecode)
    /\ \E oc \in BOOLEAN :
          LET res == EnumTryFromRawBytecode(raw_bytecode, cursor, oc)
          IN /\ decoded' = [by |-> "enum", offset |-> cursor, res |-> res]
             /\ cursor' = IF res.kind = "some" THEN res.v.offset ELSE cursor
    /\ UNCHANGED <<raw_bytecode, dex, gb, pb, run>>

DecodeNext == ArgDecode \/ DexDecode \/ EnumDecode

SpecDecode == DecodeInit /\ [][DecodeNext]_vars

-----------------------------------------------------------------------------
(* Claims about the decoders, checked under SpecDecode *)

Called == decoded.by # "none"

Returned == Called /\ decoded.res.kind = "some"

\* the word decode was called on, its opcode byte and immediate-args byte
CalledWord == raw_bytecode[decoded.offset + 1]
CalledByte == CalledWord % 256
CalledImmediateArgs == CalledWord \div 256

\* the words from the cursor to the end of the buffer
Remaining == Len(raw_bytecode) - decoded.offset

\* the k-th word after the one decode was called on
WordAfter(k) == raw_bytecode[decoded.offset + 1 + k]

\* the words the format of an opcode byte takes, read off the length table of
\* src/src/dex_parsing/instruction.rs
RequiredWords(byte) == DexLengthAndMidx(<<0, 0, 0, 0, 0>>, byte, 0, 0).length

\* C1: a decoder call that returns an instruction returns a length of at
\* least 1 that stays inside the buffer: offset + length <= buffer.len().
C1_LengthWithinBuffer ==
    Returned =>
        /\ decoded.res.v.length >= 1
        /\ decoded.offset + decoded.res.v.length <= Len(raw_bytecode)

\* a five-word const-wide decoded at a non-zero cursor that ends exactly at
\* the end of the buffer
C1_Witness ==
    /\ Returned
    /\ decoded.by = "dex"
    /\ decoded.offset = 1
    /\ decoded.res.v.length = 5
    /\ decoded.offset + decoded.res.v.length = Len(raw_bytecode)

\* C2: when the opcode byte is reserved, or fewer words remain than the
\* format of the opcode takes, the call returns Err{byte, offset} with the
\* opcode byte and the cursor, and does not panic.
C2_ErrorValueNoPanic ==
    (Called /\ (\/ CalledByte \in ReservedBytes
                \/ Remaining < RequiredWords(CalledByte))) =>
        /\ decoded.res.kind = "err"
        /\ decoded.res.byte = CalledByte
        /\ decoded.res.offset = decoded.offset

\* C3: opcode byte 0x00 with immediate-args 1, 2 or 3 gives Ok(None) and
\* leaves the cursor where it was; with any other immediate-args it decodes
\* as a one-word nop.
C3_PayloadMarkerOrNop ==
    (Called /\ CalledByte = 0) =>
        IF CalledImmediateArgs \in 1..3
        THEN decoded.res.kind = "none" /\ cursor = decoded.offset
        ELSE /\ decoded.res.kind = "some"
             /\ decoded.res.v.length = 1
             /\ CASE decoded.by = "arg" -> decoded.res.v.opcode = 0
                  [] decoded.by = "dex" -> decoded.res.v.inst.opcode = 0
                  [] decoded.by = "enum" -> decoded.res.v.inst.variant = "Nop"

\* the decoder that advances the caller's offset met a payload marker at a
\* non-zero cursor and left the cursor alone
C3_Witness ==
    /\ Called
    /\ decoded.by = "enum"
    /\ CalledByte = 0
    /\ CalledImmediateArgs = 3
    /\ decoded.offset = 1
    /\ decoded.res.kind = "none"
    /\ cursor = 1

\* the signed delta the claim gives each branch opcode
ClaimedDelta ==
    CASE CalledByte = 40 -> AsI8(CalledImmediateArgs)
      [] CalledByte = 41 \/ CalledByte \in 50..61 -> AsI16(WordAfter(1))
      [] CalledByte = 42 -> AsI32(<<WordAfter(1), WordAfter(2)>>)

\* the delta the decoder of dex_parsing/instruction/mod.rs returns
EnumDelta == decoded.res.v.inst.ops[Len(decoded.res.v.inst.ops)].off.v

\* C4: the resolved target of goto (0x28) is O + the immediate byte read as
\* a signed 8-bit value, of goto/16 (0x29) and of the conditional branches
\* (0x32-0x3D) O + the second word read as a signed 16-bit value, and of
\* goto/32 (0x2A) O + the signed 32-bit delta.
C4_SignedBranchTargets ==
    (Returned /\ CalledByte \in {40, 41, 42} \cup (50..61)) =>
        CASE decoded.by = "arg" ->
                jump_target(decoded.res.v, TRUE).kind = "some"
                /\ jump_target(decoded.res.v, TRUE).v
                        = decoded.offset + ClaimedDelta
          [] decoded.by = "enum" ->
                decoded.offset + EnumDelta = decoded.offset + ClaimedDelta
          [] OTHER -> TRUE

-----------------------------------------------------------------------------
(* The graph builders run on a method: either builder, on every buffer of    *)
(* up to MaxLen words of GraphWords and on the methods of the tests         *)

\* nop, move/16 (or a delta of 3), return-void, goto/32, if-eq, a reserved
\* byte, a packed-switch payload marker, and 0xFFFF (const-method-type, or a
\* word of a negative goto/32 delta)
GraphWords == {0, 3, 14, 42, 50, 62, 256, 65535}

\* Lorg/fdroid/fdroid/views/main/MainActivity;onStart (test_get_blocks0)
OnStart ==
    <<4207, 743, 2, 96, 57, 275, 33, 4148, 15, 26, 21033, 8305, 855, 2, 266,
      312, 7, 8532, 22998, 8302, 714, 1, 14>>

\* Lorg/fdroid/download/Mirror;hashCode (test_get_blocks2)
HashCode ==
    <<8276, 11170, 4206, 1757, 0, 10, 218, 7936, 8532, 11172, 313, 4, 274,
      1320, 4206, 1757, 1, 266, 4272, 218, 7936, 8533, 11171, 312, 3, 4370,
      4272, 15>>

\* packed-switch at 0 with its payload at 5 (two targets, +3 and +4), a
\* const/4 at 3 and a return-void at 4
PackedSwitchMethod == <<43, 5, 0, 18, 14, 256, 2, 0, 0, 3, 0, 4, 0>>

\* the same method with a sparse-switch and a sparse payload
SparseSwitchMethod == <<44, 5, 0, 18, 14, 512, 2, 0, 0, 1, 0, 3, 0, 4, 0>>

\* a nop, a return-void and a goto/32 back to the return-void
BackwardGotoMethod == <<0, 14, 42, 65535, 65535>>

\* a packed-switch whose table declares two targets and holds only the first
TruncatedSwitchMethod == <<43, 4, 0, 14, 256, 2, 0, 0, 3, 0>>

\* a return-void followed by a handler: move-exception v0, return-void
HandlerMethod == <<14, 13, 14>>

Methods ==
    UNION {[1..n -> GraphWords] : n \in 0..MaxLen}
        \cup {OnStart, HashCode, PackedSwitchMethod, SparseSwitchMethod,
              BackwardGotoMethod, TruncatedSwitchMethod, HandlerMethod}

BuildInit ==
    /\ raw_bytecode \in Methods
    /\ cursor = 0
    /\ decoded = NoCall
    /\ run = RunIdle
    /\ \/ /\ dex \in DexFiles
          /\ gb = [GraphIdle EXCEPT !.pc = "start"]
          /\ pb = BlocksIdle
       \/ /\ dex = "complete"
          /\ gb = GraphIdle
          /\ pb = [BlocksIdle EXCEPT !.pc = "start"]

BuildNext == GraphNext \/ BlocksNext

SpecBuild == BuildInit /\ [][BuildNext]_vars

\* the methods of up to MaxLen - 1 words, and the named ones
ShortMethods == {m \in Methods : Len(m) # MaxLen}

BuildShortInit == BuildInit /\ raw_bytecode \in ShortMethods

\* a build of a short method that runs on: neither loop of a builder waits
\* for anything outside the function
SpecBuildFair == BuildShortInit /\ [][BuildNext]_vars /\ WF_vars(BuildNext)

-----------------------------------------------------------------------------
(* Claims about the graph builders, checked under SpecBuild *)

\* the blocks of DexControlFlowGraph::get_blocks, and its return
GraphBlocks == gb.block_container.blocks
GraphFinished == gb.pc = "done"

\* get_blocks of dex_parsing/mod.rs has returned Ok(blocks)
BlocksFinished == pb.pc = "done"

\* b is in the list of block indices l
InList(b, l) == \E i \in 1..Len(l) : l[i] = b

\* C5: in every graph the builder of graph.rs returns, the entry block (the
\* first block, start offset 0) has an empty predecessor list.
C5_EntryHasNoPredecessor ==
    GraphFinished => GraphBlocks[1].prev = <<>>

\* B is in A's successors iff A is in B's predecessors, for all blocks A, B
Symmetric(blocks) ==
    \A a, b \in 1..Len(blocks) :
        InList(b, blocks[a].succ) <=> InList(a, blocks[b].prev)

\* C6: in every state of the construction and in the finished graph, of
\* either builder, the edges are symmetric.
C6_EdgesSymmetric == Symmetric(GraphBlocks) /\ Symmetric(pb.blocks)

\* between the two edges of a conditional branch, the block being filled
\* already has the edge to the block at the target
C6_Witness ==
    /\ gb.pc = "if"
    /\ GraphBlocks[gb.block].succ # <<>>
    /\ \E b \in 1..Len(GraphBlocks) : InList(gb.block, GraphBlocks[b].prev)

NoEmptyBlock(blocks) ==
    \A b \in 1..Len(blocks) : blocks[b].instructions # <<>>

\* C7: once a builder has returned a method's graph, no block of it has
\* zero instructions.
C7_NoEmptyBlock ==
    /\ GraphFinished => NoEmptyBlock(GraphBlocks)
    /\ BlocksFinished => NoEmptyBlock(pb.blocks)

\* C8: in a finished graph, the start offset of every non-empty block is the
\* offset of its first instruction.
C8_StartIsFirstInstruction ==
    GraphFinished =>
        \A b \in 1..Len(GraphBlocks) :
            GraphBlocks[b].instructions # <<>> =>
                GraphBlocks[b].offset = GraphBlocks[b].instructions[1].offset

\* the branch that is about to be processed resolves to t, and block A,
\* which starts before t, already holds the instruction at t
SplitDue(A, t) ==
    /\ InArm((40..42) \cup (50..61))
    /\ jump_target(LoopDecoded.v, FALSE) = Some(t)
    /\ GraphBlocks[A].offset < t
    /\ \E k \in 2..Len(GraphBlocks[A].instructions) :
          GraphBlocks[A].instructions[k].offset = t

\* after the step, block A is split at t into A and a new block A2
SplitDone(A, t) ==
    \E A2 \in 1..Len(GraphBlocks') :
        /\ A2 # A
        /\ GraphBlocks'[A2].offset = t
        /\ GraphBlocks'[A2].instructions # <<>>
        /\ GraphBlocks'[A2].instructions[1].offset = t
        /\ \A k \in 1..Len(GraphBlocks'[A].instructions) :
              GraphBlocks'[A].instructions[k].offset < t
        /\ \A b \in 1..Len(GraphBlocks) :
              InList(b, GraphBlocks[A].succ) =>
                  InList(b, GraphBlocks'[A2].succ)
        /\ GraphBlocks'[A].succ = <<A2>>
        /\ \A b \in 1..Len(GraphBlocks) :
              InList(A, GraphBlocks[b].succ) =>
                  InList(A, GraphBlocks'[b].succ)

\* C9: when the target t of a branch falls strictly inside the instruction
\* run of an already-built block A (start s < t), processing the branch
\* splits A at t: the instructions from t on move to a new block that starts
\* at t and takes over A's successors, A's only successor is the new block,
\* and the blocks that pointed to A still point to A.
C9_SplitAtInteriorTarget ==
    [][\A A \in 1..Len(GraphBlocks), t \in 1..Len(raw_bytecode) :
          SplitDue(A, t) => SplitDone(A, t)]_vars

\* the (opcode byte of the) first instruction of each block
FirstOpcodes(blocks) ==
    [b \in 1..Len(blocks) |-> blocks[b].instructions[1].opcode]

StartsWith(blocks, op) ==
    Cardinality({b \in 1..Len(blocks) : FirstOpcodes(blocks)[b] = op})

BranchesStartBlocks(blocks) ==
    \A b \in 1..Len(blocks) :
        \A k \in 1..Len(blocks[b].instructions) :
            blocks[b].instructions[k].opcode \in 50..61 =>
                /\ k = 1
                /\ blocks[b].offset = blocks[b].instructions[k].offset

\* C12: in get_blocks of graph.rs every conditional branch is the first
\* instruction of a block that starts at the branch's offset; with the dex
\* file of the tests the onStart method gives exactly 4 blocks that start
\* with invoke-super (0x6F), if-lt (0x34), if-eqz (0x38) and return-void
\* (0x0E), and the hashCode method blocks that start with iget-object (0x54),
\* if-nez (0x39), invoke-virtual (0x6E), if-eqz (0x38) and add-int/2addr
\* (0xB0) twice.
C12_BranchStartsItsBlock ==
    /\ BranchesStartBlocks(GraphBlocks)
    /\ (raw_bytecode = OnStart /\ dex = "complete"
            /\ gb.pc \in {"done", "panic"}) =>
          /\ GraphFinished
          /\ Len(GraphBlocks) = 4
          /\ NoEmptyBlock(GraphBlocks)
          /\ \A op \in {111, 52, 56, 14} : StartsWith(GraphBlocks, op) = 1
    /\ (raw_bytecode = HashCode /\ dex = "complete"
            /\ gb.pc \in {"done", "panic"}) =>
          /\ GraphFinished
          /\ Len(GraphBlocks) = 6
          /\ NoEmptyBlock(GraphBlocks)
          /\ \A op \in {84, 57, 110, 56} : StartsWith(GraphBlocks, op) = 1
          /\ StartsWith(GraphBlocks, 176) = 2

\* the graph of the hashCode method is finished and holds its two branches
C12_Witness ==
    /\ raw_bytecode = HashCode
    /\ GraphFinished
    /\ StartsWith(GraphBlocks, 57) = 1
    /\ StartsWith(GraphBlocks, 56) = 1

(***************************************************************************)
(* Block features: impl From<&&mut BasicBlock> for BasicBlockFeatures      *)
(* (src/src/block.rs, lines 153-195), called by BasicBlock::visit.         *)
(***************************************************************************)

\* the length bound of the blocks whose features are taken
MaxInsts == 3

\* counters in which every arm of the match is tried for every instruction
category_counts_every_arm(instructions) ==
    LET n(opcodes) == Cardinality({k \in 1..Len(instructions) :
                                      instructions[k].opcode \in opcodes})
    IN [move_  |-> n(1..19),
        const_ |-> n(18..28),
        invoke |-> n((110..120) \cup (250..253)),
        op     |-> n((144..226) \cup (123..143)),
        load   |-> n((68..74) \cup (82..88) \cup (96..102)),
        store  |-> n((75..81) \cup (89..95) \cup (103..109))]

\* lines 166-174: the arm of the match that an opcode takes (the first whose
\* pattern it matches)
category(opcode) ==
    IF opcode \in 1..19 THEN "move_"
    ELSE IF opcode \in 18..28 THEN "const_"
    ELSE IF opcode \in (110..120) \cup (250..253) THEN "invoke"
    ELSE IF opcode \in (144..226) \cup (123..143) THEN "op"
    ELSE IF opcode \in (68..74) \cup (82..88) \cup (96..102) THEN "load"
    ELSE IF opcode \in (75..81) \cup (89..95) \cup (103..109) THEN "store"
    ELSE "_"

\* lines 162-175: the instructions of the block that take the arm c
CountCategory(instructions, c) ==
    Cardinality({k \in 1..Len(instructions) :
                    category(instructions[k].opcode) = c})

\* lines 156-175: the six counters after the loop over block.instructions()
category_counts(instructions) ==
    [move_  |-> CountCategory(instructions, "move_"),
     const_ |-> CountCategory(instructions, "const_"),
     invoke |-> CountCategory(instructions, "invoke"),
     op     |-> CountCategory(instructions, "op"),
     load   |-> CountCategory(instructions, "load"),
     store  |-> CountCategory(instructions, "store")]

\* lines 176-181: the terminator of the opcode of the last instruction
TerminatorOf(opcode) ==
    IF opcode \in 14..17 THEN "Return"
    ELSE IF opcode = 39 THEN "Throw"
    ELSE IF opcode \in 40..44 THEN "Goto"
    ELSE "None"

\* count / length of lines 185-190: an f32 quotient of two small integers,
\* kept as its two operands
Ratio(count, length) == [count |-> count, length |-> length]

\* lines 154-193: the features of a block; .last().unwrap() of line 176
\* panics when the block holds no instruction
BasicBlockFeaturesFrom(block) ==
    LET counts == category_counts(block.instructions)
        length == Len(block.instructions)
    IN
    IF length = 0 THEN Panic
    ELSE [kind |-> "features",
          inst_cnt |-> length,
          store |-> Ratio(counts.store, length),
          load |-> Ratio(counts.load, length),
          op |-> Ratio(counts.op, length),
          invoke |-> Ratio(counts.invoke, length),
          move_ |-> Ratio(counts.move_, length),
          const_ |-> Ratio(counts.const_, length),
          terminator |-> TerminatorOf(block.instructions[length].opcode),
          exc_entry |-> block.exc_entry]

\* opcodes of the instructions of the blocks: the ends of the ranges of the
\* match and opcodes that no arm takes
FeatureOpcodes ==
    {0, 1, 17, 18, 19, 28, 29, 39, 40, 44, 50, 68, 75, 110, 144, 250}

\* a block of a finished graph that holds the instructions with these opcodes
FeatureBlock(opcodes, exc_entry) ==
    [BasicBlockNew(0, exc_entry) EXCEPT
        !.instructions = [k \in 1..Len(opcodes) |->
                             [opcode |-> opcodes[k], offset |-> k - 1,
                              arguments |-> <<>>, length |-> 1]]]

FeaturesInit ==
    /\ \E n \in 0..MaxInsts, exc_entry \in BOOLEAN :
          \E opcodes \in [1..n -> FeatureOpcodes] :
              gb = GraphState("done",
                       [blocks |-> <<FeatureBlock(opcodes, exc_entry)>>,
                        offsets |-> {0}],
                       <<>>, 1, None)
    /\ raw_bytecode = <<>>
    /\ dex = "complete"
    /\ cursor = 0
    /\ decoded = NoCall
    /\ pb = BlocksIdle
    /\ run = RunIdle

\* BasicBlock::visit (block.rs lines 61-73) of the entry block, which has no
\* successor: the features of the block are taken and printed
visit ==
    /\ decoded = NoCall
    /\ decoded' = BasicBlockFeaturesFrom(GraphBlocks[1])
    /\ UNCHANGED <<raw_bytecode, dex, cursor, gb, pb, run>>

FeaturesNext == visit

SpecFeatures == FeaturesInit /\ [][FeaturesNext]_vars

\* opcodes that some arm of the match names
RecognizedOpcodes ==
    (1..19) \cup (18..28) \cup (110..120) \cup (250..253) \cup (144..226)
        \cup (123..143) \cup (68..74) \cup (82..88) \cup (96..102)
        \cup (75..81) \cup (89..95) \cup (103..109)

\* the sum of the six counters
CountSum(c) == c.move_ + c.const_ + c.invoke + c.op + c.load + c.store

\* the sum of the counts of the six ratios of returned features
RatioCountSum(f) ==
    f.move_.count + f.const_.count + f.invoke.count + f.op.count
        + f.load.count + f.store.count

\* C13: for every block the six category counters add up to the number of
\* instructions whose opcode some arm of the match names, which is at most
\* the number of instructions of the block (each instruction is counted in
\* at most one category), and the ratios of returned features are these
\* counters over the instruction count, so their sum is at most 1.
C13_OneCategoryPerInstruction ==
    \A b \in 1..Len(GraphBlocks) :
        LET instructions == GraphBlocks[b].instructions
            counts == category_counts(instructions)
        IN
        /\ CountSum(counts) <= Len(instructions)
        /\ CountSum(counts) =
              Cardinality({k \in 1..Len(instructions) :
                              instructions[k].opcode \in RecognizedOpcodes})
        /\ (b = 1 /\ decoded # NoCall /\ decoded.kind = "features") =>
              /\ RatioCountSum(decoded) = CountSum(counts)
              /\ RatioCountSum(decoded) <= decoded.inst_cnt
              /\ \A r \in {decoded.move_, decoded.const_, decoded.invoke,
                           decoded.op, decoded.load, decoded.store} :
                     r.length = decoded.inst_cnt

\* features were returned for a block that holds a const/4 (an opcode that
\* two patterns of the match name) and an opcode that no pattern names
C13_Witness ==
    /\ decoded # NoCall
    /\ decoded.kind = "features"
    /\ \E k \in 1..Len(GraphBlocks[1].instructions) :
           GraphBlocks[1].instructions[k].opcode = 18
    /\ \E k \in 1..Len(GraphBlocks[1].instructions) :
           GraphBlocks[1].instructions[k].opcode = 29
    /\ decoded.move_.count = 1
    /\ decoded.const_.count = 0

\* C14: a build never panics: on a decode error while scanning, or on a
\* switch whose payload table lies wholly or partly outside the buffer, it
\* returns an error value and produces no graph.
C14_BuildNeverPanics ==
    /\ gb.pc # "panic"
    /\ pb.pc # "panic"
    /\ pb.pc = "err" => pb.blocks = <<>>

(***************************************************************************)
(* Loops over the methods of a dex file: get_op_seq and into_blocks of     *)
(* src/src/dex_parsing/mod.rs and the loop of main (src/src/main.rs).      *)
(***************************************************************************)

\* the number of methods of a dex file
MaxMethods == 2

\* usize::MAX, the result of 0 - 1 without overflow checks; the model's
\* integers stop at 2^31 - 1, which stands for 2^64 - 1
UsizeMax == 2147483647

\* lines 36-49 of dex_parsing/mod.rs: the opcodes of one method and whether
\* they are to be added (do_extend)
RECURSIVE method_seq(_, _, _)
method_seq(raw, offset, current_method_seq) ==
    IF offset >= Len(raw)
    THEN [do_extend |-> TRUE, current_method_seq |-> current_method_seq]
    ELSE LET res == DexTryFromRawBytecode(raw, offset)
         IN CASE res.kind = "some" ->
                   method_seq(raw, offset + res.v.length,
                              Append(current_method_seq, res.v.inst.opcode))
              [] res.kind = "none" ->
                   [do_extend |-> TRUE,
                    current_method_seq |-> current_method_seq]
              [] OTHER ->
                   [do_extend |-> FALSE,
                    current_method_seq |-> current_method_seq]

\* line 50 and extend (lines 60-64): *pos += len; m_bounds.push((start,
\* *pos - 1)); op_seq.extend(..). *pos - 1 underflows when no opcode has been
\* added yet: a panic with overflow checks, usize::MAX without
extend(r, current_method_seq, start, included) ==
    LET pos == r.pos + Len(current_method_seq)
    IN
    IF ~included THEN r
    ELSE IF pos = 0 /\ r.oc THEN [r EXCEPT !.pc = "panic"]
    ELSE [r EXCEPT !.pos = pos,
                   !.m_bounds = Append(@, <<start, IF pos = 0 THEN UsizeMax
                                                   ELSE pos - 1>>),
                   !.op_seq = @ \o current_method_seq]

\* lines 108-119 of main.rs: the instructions of one method are pushed as
\* they are decoded, until the end of the buffer, a payload table or an error
RECURSIVE main_method_seq(_, _, _, _)
main_method_seq(raw, offset, instruction_sequence, oc) ==
    IF offset >= Len(raw)
    THEN [kind |-> "ok", instruction_sequence |-> instruction_sequence]
    ELSE LET res == EnumTryFromRawBytecode(raw, offset, oc)
         IN CASE res.kind = "some" ->
                   main_method_seq(raw, res.v.offset,
                                   Append(instruction_sequence, res.v.inst), oc)
              [] res.kind = "none" ->
                   [kind |-> "ok", instruction_sequence |-> instruction_sequence]
              [] res.kind = "err" ->
                   [kind |-> "err", instruction_sequence |-> instruction_sequence]
              [] OTHER ->
                   [kind |-> "panic", instruction_sequence |-> instruction_sequence]

\* the state at the start of a loop over the methods that have code
RunStart(handler, methods, sequence_cap, oc) ==
    [pc |-> "methods", handler |-> handler, methods |-> methods, m |-> 1,
     sequence_cap |-> sequence_cap, oc |-> oc, failed |-> FALSE,
     op_seq |-> <<>>, m_bounds |-> <<>>, pos |-> 0,
     blocks |-> <<>>, instruction_sequence |-> <<>>]

InRun(handler) ==
    /\ run.pc = "methods"
    /\ run.handler = handler
    /\ run.m <= Len(run.methods)

\* the loop goes on to the next method; failed tells whether this one ended
\* in the Err arm
NextMethod(r, failed) ==
    IF r.pc = "panic" THEN r
    ELSE [r EXCEPT !.m = @ + 1, !.failed = failed]

\* lines 30-53 of dex_parsing/mod.rs: one method of get_op_seq
get_op_seq_method ==
    /\ InRun("get_op_seq")
    /\ LET s == method_seq(run.methods[run.m], 0, <<>>)
           included ==
               /\ s.do_extend
               /\ \/ run.sequence_cap = 0
                  \/ Len(run.op_seq) + Len(s.current_method_seq)
                         < run.sequence_cap
       IN run' = NextMethod(extend(run, s.current_method_seq, run.pos, included),
                            ~s.do_extend)
    /\ UNCHANGED <<raw_bytecode, dex, cursor, decoded, gb, pb>>

\* line 72 of dex_parsing/mod.rs: get_blocks(code.insns()) is called
into_blocks_call ==
    /\ InRun("into_blocks")
    /\ pb.pc = "idle"
    /\ raw_bytecode' = run.methods[run.m]
    /\ pb' = [BlocksIdle EXCEPT !.pc = "start"]
    /\ UNCHANGED <<dex, cursor, decoded, gb, run>>

\* lines 72-78: the first block of Ok(b), if any, is pushed; Err is reported
into_blocks_result ==
    /\ InRun("into_blocks")
    /\ pb.pc \in {"done", "err", "panic"}
    /\ run' = CASE pb.pc = "panic" -> [run EXCEPT !.pc = "panic"]
                [] pb.pc = "err" -> NextMethod(run, TRUE)
                [] pb.pc = "done" /\ pb.blocks = <<>> -> NextMethod(run, FALSE)
                [] OTHER ->
                     NextMethod([run EXCEPT !.blocks = Append(@, pb.blocks[1])],
                                FALSE)
    /\ pb' = BlocksIdle
    /\ UNCHANGED <<raw_bytecode, dex, cursor, decoded, gb>>

\* lines 103-121 of main.rs: one method of the loop of main
main_method ==
    /\ InRun("main")
    /\ LET s == main_method_seq(run.methods[run.m], 0,
                                run.instruction_sequence, run.oc)
       IN run' = IF s.kind = "panic" THEN [run EXCEPT !.pc = "panic"]
                 ELSE NextMethod([run EXCEPT !.instruction_sequence =
                                                 s.instruction_sequence],
                                 s.kind = "err")
    /\ UNCHANGED <<raw_bytecode, dex, cursor, decoded, gb, pb>>

\* the loop over the methods ends
RunReturn ==
    /\ run.pc = "methods"
    /\ run.m > Len(run.methods)
    /\ run' = [run EXCEPT !.pc = "done"]
    /\ UNCHANGED <<raw_bytecode, dex, cursor, decoded, gb, pb>>

\* code.insns() of the methods: return-void; nop, return-void; an unused
\* opcode byte; a nop before an unused opcode byte; const/4 before an
\* invoke-virtual whose words are missing; a payload table; a conditional
\* branch over a nop; a goto out of the buffer; a packed-switch
MethodBuffers ==
    {<<14>>, <<0, 14>>, <<62>>, <<0, 62>>, <<18, 110>>, <<256, 0>>,
     <<56, 3, 0, 14>>, <<1320>>, PackedSwitchMethod}

MethodsInit ==
    /\ \E n \in 0..MaxMethods, sequence_cap \in {0, 3}, oc \in BOOLEAN :
          \E methods \in [1..n -> MethodBuffers] :
              \E handler \in {"get_op_seq", "into_blocks", "main"} :
                  run = RunStart(handler, methods, sequence_cap, oc)
    /\ raw_bytecode = <<>>
    /\ dex = "complete"
    /\ cursor = 0
    /\ decoded = NoCall
    /\ gb = GraphIdle
    /\ pb = BlocksIdle

MethodsNext ==
    \/ get_op_seq_method
    \/ into_blocks_call
    \/ BlocksNext
    \/ into_blocks_result
    \/ main_method
    \/ RunReturn

SpecMethods == MethodsInit /\ [][MethodsNext]_vars

\* the loop has just finished a method
MethodStep == run.pc = "methods" /\ run'.pc = "methods" /\ run'.m = run.m + 1

\* C15: a method that ends in a decode error adds nothing to the output (no
\* opcode, no bound, no block, no instruction) and the loop goes on to the
\* next method, so the other methods give the output they give without it.
C15_FailingMethodIsolated ==
    [][(MethodStep /\ run'.failed) =>
          /\ run'.op_seq = run.op_seq
          /\ run'.m_bounds = run.m_bounds
          /\ run'.pos = run.pos
          /\ run'.blocks = run.blocks
          /\ run'.instruction_sequence = run.instruction_sequence]_vars

\* opcode bytes of the invoke families of src/src/dex_parsing/instruction.rs
InvokeKindBytes == (110..114) \cup (116..120)
InvokeFamilyBytes == InvokeKindBytes \cup {250, 251}

\* C16: the decoder of src/src/dex_parsing/instruction.rs, called on an
\* invoke-kind opcode (0x6E-0x72, 0x74-0x78) with at least three words left,
\* returns length 3 and the third word of the instruction as method
\* reference index; for every instruction it returns whose opcode is outside
\* the invoke families (0x6E-0x72, 0x74-0x78, 0xFA, 0xFB) m_idx is absent.
C16_InvokeMethodIndex ==
    (Called /\ decoded.by = "dex") =>
        /\ (CalledByte \in InvokeKindBytes /\ Remaining >= 3) =>
              /\ Returned
              /\ decoded.res.v.length = 3
              /\ decoded.res.v.inst.opcode = CalledByte
              /\ decoded.res.v.inst.m_idx = Some(WordAfter(2))
        /\ (Returned /\ CalledByte \notin InvokeFamilyBytes) =>
              decoded.res.v.inst.m_idx = None

\* an invoke-super with three words left was decoded
C16_Witness ==
    /\ Called
    /\ decoded.by = "dex"
    /\ CalledByte = 111
    /\ Remaining >= 3
    /\ Returned
    /\ decoded.res.v.inst.m_idx = Some(WordAfter(2))
    /\ WordAfter(2) # WordAfter(1)

\* the start offsets of the successors of block b of each builder
GraphSuccStarts(b) ==
    {GraphBlocks[GraphBlocks[b].succ[i]].offset :
         i \in 1..Len(GraphBlocks[b].succ)}

BlocksSuccStarts(b) ==
    {pb.blocks[pb.blocks[b].succ[i]].instructions[1].offset :
         i \in 1..Len(pb.blocks[b].succ)}

\* C17: a conditional branch of length 2 at offset O gives the block that
\* contains it an edge to the block that starts at O + delta and an edge to
\* the block that starts at the fallthrough offset O + 2, so in a finished
\* graph both are successors of the block that holds the branch.
C17_BranchEdgesFromItsBlock ==
    /\ GraphFinished =>
          \A b \in 1..Len(GraphBlocks) :
              \A k \in 1..Len(GraphBlocks[b].instructions) :
                  LET inst == GraphBlocks[b].instructions[k]
                  IN (inst.opcode \in 50..61 /\ inst.length = 2) =>
                         /\ jump_target(inst, FALSE).kind = "some"
                         /\ jump_target(inst, FALSE).v \in GraphSuccStarts(b)
                         /\ inst.offset + 2 \in GraphSuccStarts(b)
    /\ BlocksFinished =>
          \A b \in 1..Len(pb.blocks) :
              \A k \in 1..Len(pb.blocks[b].instructions) :
                  LET inst == pb.blocks[b].instructions[k]
                  IN inst.opcode \in 50..61 =>
                         /\ inst.dest.v \in BlocksSuccStarts(b)
                         /\ inst.offset + 2 \in BlocksSuccStarts(b)

\* C18: in a finished graph the block that contains a goto (0x28-0x2A) has
\* exactly one successor, the block that starts at the goto's target.
C18_GotoSingleSuccessor ==
    /\ GraphFinished =>
          \A b \in 1..Len(GraphBlocks) :
              \A k \in 1..Len(GraphBlocks[b].instructions) :
                  LET inst == GraphBlocks[b].instructions[k]
                  IN inst.opcode \in 40..42 =>
                         /\ Len(GraphBlocks[b].succ) = 1
                         /\ jump_target(inst, FALSE).kind = "some"
                         /\ GraphSuccStarts(b) = {jump_target(inst, FALSE).v}
    /\ BlocksFinished =>
          \A b \in 1..Len(pb.blocks) :
              \A k \in 1..Len(pb.blocks[b].instructions) :
                  LET inst == pb.blocks[b].instructions[k]
                  IN inst.opcode \in 40..42 =>
                         /\ Len(pb.blocks[b].succ) = 1
                         /\ BlocksSuccStarts(b) = {inst.dest.v}

\* the table of the switch with opcode op that starts at word t of the
\* buffer lies inside the buffer
TableInside(op, t) ==
    /\ t >= 0
    /\ t + 2 <= Len(raw_bytecode)
    /\ LET size == raw_bytecode[t + 2]
       IN IF op = 43 THEN t + 4 + 2 * size <= Len(raw_bytecode)
          ELSE t + 2 + 4 * size <= Len(raw_bytecode)

\* the absolute targets O + target_i of the switch with opcode op at offset
\* O whose table starts at word t: the targets follow the 4-word header
\* (packed) or the 2-word header and the 2N key words (sparse)
TableTargets(op, O, t) ==
    LET size == raw_bytecode[t + 2]
        first == IF op = 43 THEN t + 4 ELSE t + 2 + 2 * size
    IN {O + AsI32(concat_words2(raw_bytecode[first + 2 * i + 1],
                                raw_bytecode[first + 2 * i + 2])) :
            i \in 0..(size - 1)}

\* C19: a packed-switch or sparse-switch at offset O whose table declares N
\* targets gives the block that contains it N edges, the i-th to the block
\* that starts at O + target_i, so in a finished graph the blocks at these
\* offsets are successors of the block that holds the switch.
C19_SwitchEdges ==
    /\ GraphFinished =>
          \A b \in 1..Len(GraphBlocks) :
              \A k \in 1..Len(GraphBlocks[b].instructions) :
                  LET inst == GraphBlocks[b].instructions[k]
                      t == jump_target(inst, FALSE)
                  IN (inst.opcode \in {43, 44} /\ t.kind = "some"
                          /\ TableInside(inst.opcode, t.v)) =>
                         TableTargets(inst.opcode, inst.offset, t.v)
                             \subseteq GraphSuccStarts(b)
    /\ BlocksFinished =>
          \A b \in 1..Len(pb.blocks) :
              \A k \in 1..Len(pb.blocks[b].instructions) :
                  LET inst == pb.blocks[b].instructions[k]
                  IN (inst.opcode \in {43, 44}
                          /\ TableInside(inst.opcode, inst.dest.v)) =>
                         TableTargets(inst.opcode, inst.offset, inst.dest.v)
                             \subseteq BlocksSuccStarts(b)

\* the offset after the return or throw that is being processed lies inside
\* the buffer and the word there does not start a payload table
NewBlockDue ==
    /\ NewOffset < Len(raw_bytecode)
    /\ ~(/\ split_word(raw_bytecode[NewOffset + 1])[1] = 0
         /\ IsPayloadMarker(split_word(raw_bytecode[NewOffset + 1])[2]))

\* C20: processing a return (0x0E-0x11) or a throw (0x27) adds no successor
\* edge; a block at the next offset exists afterwards and the scan goes on
\* from that offset exactly when the next offset is inside the buffer and
\* the word there is not a payload-table marker.
C20_TerminatorStartsNewBlock ==
    [][(InArm((14..17) \cup {39}) /\ gb' # gb /\ gb'.pc = "loop") =>
          /\ \A b \in 1..Len(GraphBlocks) :
                 gb'.block_container.blocks[b].succ = GraphBlocks[b].succ
          /\ NewBlockDue =>
                 /\ \E b \in 1..Len(gb'.block_container.blocks) :
                        /\ gb'.block_container.blocks[b].offset = NewOffset
                        /\ gb'.block_container.blocks[b].prev = <<>>
                 /\ gb'.offsets = Append(LoopPopped, NewOffset)
          /\ ~NewBlockDue =>
                 /\ Len(gb'.block_container.blocks) = Len(GraphBlocks)
                 /\ gb'.offsets = LoopPopped]_vars

\* opcodes of the terminator classes: return, throw, goto, switch and
\* conditional branch
TerminatorOpcodes == (14..17) \cup {39} \cup (40..44) \cup (50..61)

\* no block holds an instruction after a terminator
TerminatorsLast(blocks) ==
    \A b \in 1..Len(blocks) :
        \A k \in 1..Len(blocks[b].instructions) :
            blocks[b].instructions[k].opcode \in TerminatorOpcodes =>
                k = Len(blocks[b].instructions)

\* C21: in every finished method graph an instruction of a terminator class
\* (goto, switch, conditional branch, return, throw) is the last instruction
\* of its block.
C21_TerminatorIsLast ==
    /\ GraphFinished => TerminatorsLast(GraphBlocks)
    /\ BlocksFinished => TerminatorsLast(pb.blocks)

\* the build has ended: the blocks or an error were returned, or it panicked
BuildEnded ==
    \/ gb.pc \in {"done", "panic"}
    \/ pb.pc \in {"done", "err", "panic"}

\* the offsets of the instructions decoded so far, block by block (graph.rs)
\* or in the order of the scan (dex_parsing/mod.rs)
GraphDecodedOffsets ==
    UNION {{GraphBlocks[b].instructions[k].offset :
                k \in 1..Len(GraphBlocks[b].instructions)} :
               b \in 1..Len(GraphBlocks)}

\* every instruction was decoded once, and the offset that is decoded next
\* lies after all of them
DecodedOnce ==
    /\ gb.pc \in {"loop", "if", "done", "panic"} =>
          /\ Len(gb.offsets) <= 1
          /\ \A b, c \in 1..Len(GraphBlocks) :
                 \A k \in 1..Len(GraphBlocks[b].instructions) :
                     \A l \in 1..Len(GraphBlocks[c].instructions) :
                         (GraphBlocks[b].instructions[k].offset
                              = GraphBlocks[c].instructions[l].offset)
                             => (b = c /\ k = l)
          /\ (gb.pc = "loop" /\ gb.offsets # <<>>) =>
                 \A o \in GraphDecodedOffsets : o < LoopOffset
    /\ pb.pc \in {"scan", "partition"} =>
          /\ \A k, l \in 1..Len(pb.instructions) :
                 k < l => pb.instructions[k].offset < pb.instructions[l].offset
          /\ \A k \in 1..Len(pb.instructions) :
                 pb.instructions[k].offset < pb.offset

\* C22: a build ends on every buffer, also on buffers whose backward
\* branches form loops, and no instruction offset is decoded more than once
\* during a build.
C22_BuildTerminates == []DecodedOnce /\ <>BuildEnded

\* the build of the method with a backward goto has ended with its blocks
C22_Witness ==
    /\ raw_bytecode = BackwardGotoMethod
    /\ GraphFinished
    /\ \E b \in 1..Len(GraphBlocks) :
           \E k \in 1..Len(GraphBlocks[b].instructions) :
               /\ GraphBlocks[b].instructions[k].opcode = 42
               /\ jump_target(GraphBlocks[b].instructions[k], FALSE)
                      = Some(GraphBlocks[b].instructions[k].offset - 1)

\* the start offsets of the exception-handler ranges a build is given:
\* get_blocks takes the dex file and the words only, so there are none
ExceptionRangeStarts == {}

\* C23: a block's exception-entry flag is true if and only if the block
\* starts at the start of one of the exception-handler ranges given to the
\* build; the words of the buffer have no part in it.
C23_ExceptionEntryFromRanges ==
    \A b \in 1..Len(GraphBlocks) :
        GraphBlocks[b].exc_entry <=>
            GraphBlocks[b].offset \in ExceptionRangeStarts

\* the terminator kind by the class of an opcode
TerminatorKind(opcode) ==
    CASE opcode \in 40..42 -> "Goto"
      [] opcode \in 43..44 -> "Switch"
      [] opcode \in 50..61 -> "ConditionalBranch"
      [] opcode \in 14..17 -> "Return"
      [] opcode = 39 -> "Throw"
      [] OTHER -> "None"

\* C24: the terminator kind of a block's features follows from the opcode of
\* the block's last instruction: Goto for 0x28-0x2A, Switch for 0x2B-0x2C,
\* ConditionalBranch for 0x32-0x3D, Return for 0x0E-0x11, Throw for 0x27 and
\* None for every other opcode.
C24_TerminatorKind ==
    (decoded # NoCall /\ decoded.kind = "features") =>
        LET instructions == GraphBlocks[1].instructions
        IN decoded.terminator =
               TerminatorKind(instructions[Len(instructions)].opcode)

\* C25: the features of a block are always returned; for a block without
\* instructions they hold the instruction count 0, every ratio 0 and the
\* terminator None.
C25_FeaturesTotal ==
    decoded # NoCall =>
        /\ decoded.kind = "features"
        /\ GraphBlocks[1].instructions = <<>> =>
              /\ decoded.inst_cnt = 0
              /\ RatioCountSum(decoded) = 0
              /\ decoded.terminator = "None"

\* the multi-word immediate of the returned instruction, as 16-bit limbs,
\* lowest first
DecodedWide ==
    IF decoded.by = "arg" THEN decoded.res.v.arguments[2].v
    ELSE decoded.res.v.inst.ops[2].v

\* C26: multi-word immediates are assembled in little-endian word order: the
\* 32-bit immediate of const (0x14) from the words w1, w2 after the opcode
\* word is w1 + w2 * 2^16, and the 64-bit immediate of const-wide (0x18) from
\* the words w1, w2, w3, w4 is w1 + w2 * 2^16 + w3 * 2^32 + w4 * 2^48.
C26_LittleEndianImmediates ==
    (Returned /\ decoded.by \in {"arg", "enum"}) =>
        /\ CalledByte = 20 => DecodedWide = <<WordAfter(1), WordAfter(2)>>
        /\ CalledByte = 24 =>
              DecodedWide =
                  <<WordAfter(1), WordAfter(2), WordAfter(3), WordAfter(4)>>

\* C27: an invoke-kind instruction (0x6E-0x72) whose immediate-args byte has
\* the high nibble A always decodes, and its register list has exactly A
\* entries with A <= 5: entries 1 to 4 are the 4-bit fields of the argument
\* word, lowest nibble first, and entry 5 is the low nibble of the
\* immediate-args byte.
InvokeArgumentCount == CalledImmediateArgs \div 16

InvokeRegisters == decoded.res.v.inst.ops[3].v

ClaimedRegister(k) ==
    IF k = 5 THEN RegByte(CalledImmediateArgs % 16)
    ELSE RegByte((WordAfter(2) \div Pow2(4 * (k - 1))) % 16)

C27_InvokeRegisterList ==
    (Called /\ decoded.by = "enum" /\ CalledByte \in 110..114
        /\ Remaining >= 3) =>
        /\ Returned
        /\ InvokeArgumentCount <= 5
        /\ Len(InvokeRegisters) = InvokeArgumentCount
        /\ \A k \in 1..Len(InvokeRegisters) :
              InvokeRegisters[k] = ClaimedRegister(k)


-----------------------------------------------------------------------------
(* The worker pool of main: the input paths are parsed in parallel and the *)
(* results are collected in one map behind a mutex (src/src/main.rs)       *)

MaxPaths == 3
MaxThreads == 2

\* DexReader::from_file(path) is an Err
Unreadable == [kind |-> "unreadable"]

\* what an input path holds: nothing that can be read, or a dex file given by
\* the code of its methods (none; return-void; nop, return-void and an unused
\* opcode byte; const/4 before an invoke-virtual whose words are missing)
DexFile(methods) == [kind |-> "dex", methods |-> methods]

Files ==
    {Unreadable, DexFile(<<>>), DexFile(<<<<14>>>>),
     DexFile(<<<<0, 14>>, <<62>>>>), DexFile(<<<<18, 110>>>>)}

\* lines 104-123 of main.rs: the instruction sequence of one file, the
\* methods from the m-th on pushing to the same vector
RECURSIVE file_instruction_sequence(_, _, _, _)
file_instruction_sequence(methods, m, instruction_sequence, oc) ==
    IF m > Len(methods)
    THEN [kind |-> "ok", instruction_sequence |-> instruction_sequence]
    ELSE LET s == main_method_seq(methods[m], 0, instruction_sequence, oc)
         IN IF s.kind = "panic" THEN s
            ELSE file_instruction_sequence(methods, m + 1,
                                           s.instruction_sequence, oc)

WorkerIdle == [pc |-> "idle", path |-> 0, instruction_sequence |-> <<>>]

\* the state when par_iter().for_each starts: no path is handed out, the
\* mutex is free (0) and the map is empty
PoolStart(input, threads, oc) ==
    [pc |-> "par_iter", input |-> input, oc |-> oc, taken |-> {},
     workers |-> [w \in 1..threads |-> WorkerIdle], mutex |-> 0,
     accumulator |-> [p \in 1..Len(input) |-> None], panicked |-> {}]

WorkerAt(w, pc) ==
    run.pc = "par_iter" /\ w \in DOMAIN run.workers /\ run.workers[w].pc = pc

\* a thread of the pool takes the closure call of a path not yet handed out
TakePath(w) ==
    /\ WorkerAt(w, "idle")
    /\ \E p \in (1..Len(run.input)) \ run.taken :
          run' = [run EXCEPT !.taken = @ \cup {p},
                             !.workers[w] = [WorkerIdle EXCEPT !.pc = "read",
                                                               !.path = p]]
    /\ UNCHANGED <<raw_bytecode, dex, cursor, decoded, gb, pb>>

\* DexReader::from_file(path): the Err arm prints and the closure returns
ReadFile(w) ==
    /\ WorkerAt(w, "read")
    /\ run' = IF run.input[run.workers[w].path] = Unreadable
              THEN [run EXCEPT !.workers[w] = WorkerIdle]
              ELSE [run EXCEPT !.workers[w].pc = "decode"]
    /\ UNCHANGED <<raw_bytecode, dex, cursor, decoded, gb, pb>>

\* the loops over the classes and methods fill the closure's own vector; a
\* panic unwinds the closure and is kept by the pool
DecodeFile(w) ==
    /\ WorkerAt(w, "decode")
    /\ LET p == run.workers[w].path
           s == file_instruction_sequence(run.input[p].methods, 1, <<>>, run.oc)
       IN run' = IF s.kind = "panic"
                 THEN [run EXCEPT !.workers[w] = WorkerIdle,
                                  !.panicked = @ \cup {p}]
                 ELSE [run EXCEPT !.workers[w].pc = "lock",
                                  !.workers[w].instruction_sequence =
                                      s.instruction_sequence]
    /\ UNCHANGED <<raw_bytecode, dex, cursor, decoded, gb, pb>>

\* accumulator.0.lock().unwrap(): blocks until the mutex is free
Lock(w) ==
    /\ WorkerAt(w, "lock")
    /\ run.mutex = 0
    /\ run' = [run EXCEPT !.mutex = w, !.workers[w].pc = "insert"]
    /\ UNCHANGED <<raw_bytecode, dex, cursor, decoded, gb, pb>>

\* accumulator.insert(path, instruction_sequence) through the guard
Insert(w) ==
    /\ WorkerAt(w, "insert")
    /\ run' = [run EXCEPT !.accumulator[run.workers[w].path] =
                              Some(run.workers[w].instruction_sequence),
                          !.workers[w].pc = "unlock"]
    /\ UNCHANGED <<raw_bytecode, dex, cursor, decoded, gb, pb>>

\* the guard is dropped at the end of the closure
Unlock(w) ==
    /\ WorkerAt(w, "unlock")
    /\ run' = [run EXCEPT !.mutex = 0, !.workers[w] = WorkerIdle]
    /\ UNCHANGED <<raw_bytecode, dex, cursor, decoded, gb, pb>>

\* for_each returns when every path was handed out and every closure call
\* has ended; a panic kept by the pool is resumed in main
PoolReturn ==
    /\ run.pc = "par_iter"
    /\ run.taken = 1..Len(run.input)
    /\ \A w \in DOMAIN run.workers : run.workers[w].pc = "idle"
    /\ run' = [run EXCEPT !.pc = IF run.panicked = {} THEN "done" ELSE "panic"]
    /\ UNCHANGED <<raw_bytecode, dex, cursor, decoded, gb, pb>>

WorkersInit ==
    /\ \E n \in 1..MaxPaths, threads \in 1..MaxThreads, oc \in BOOLEAN :
          \E input \in [1..n -> Files] : run = PoolStart(input, threads, oc)
    /\ raw_bytecode = <<>>
    /\ dex = "complete"
    /\ cursor = 0
    /\ decoded = NoCall
    /\ gb = GraphIdle
    /\ pb = BlocksIdle

WorkersNext ==
    \/ \E w \in 1..MaxThreads : TakePath(w)
    \/ \E w \in 1..MaxThreads : ReadFile(w)
    \/ \E w \in 1..MaxThreads : DecodeFile(w)
    \/ \E w \in 1..MaxThreads : Lock(w)
    \/ \E w \in 1..MaxThreads : Insert(w)
    \/ \E w \in 1..MaxThreads : Unlock(w)
    \/ PoolReturn

SpecWorkers == WorkersInit /\ [][WorkersNext]_vars

\* the paths whose file could be read
ReadPaths == {p \in 1..Len(run.input) : run.input[p] # Unreadable}

\* every worker that is writing the map holds the mutex
WritesUnderMutex ==
    run.pc = "par_iter" =>
        \A w \in DOMAIN run.workers :
            run.workers[w].pc \in {"insert", "unlock"} => run.mutex = w

\* the map holds the sequence of each path that was read, computed from the
\* file of that path alone, and nothing else
OneEntryPerReadPath ==
    \A p \in 1..Len(run.input) :
        IF p \in ReadPaths
        THEN LET s == file_instruction_sequence(run.input[p].methods, 1, <<>>, run.oc)
             IN /\ run.accumulator[p] # None
                /\ s.kind = "ok"
                /\ run.accumulator[p] = Some(s.instruction_sequence)
        ELSE run.accumulator[p] = None

\* C28: with any number of worker threads and any interleaving, every write
\* to the results map is made while the mutex is held, and when all workers
\* have finished the map holds exactly one entry per input path that was read
\* successfully, whose value is the instruction sequence of that path alone.
C28_ResultsMapComplete ==
    /\ WritesUnderMutex
    /\ run.pc \in {"done", "panic"} => OneEntryPerReadPath

\* C29: at every point of a build and in the finished graph, no two blocks
\* of the block container have the same start offset.
C29_UniqueBlockOffsets ==
    \A a \in 1..Len(GraphBlocks) :
        \A b \in 1..Len(GraphBlocks) :
            GraphBlocks[a].offset = GraphBlocks[b].offset => a = b

\* get_op_seq has just pushed a bound for the method it was at
BoundPushed ==
    /\ run.pc = "methods"
    /\ run.handler = "get_op_seq"
    /\ Len(run'.m_bounds) = Len(run.m_bounds) + 1

\* C30: in get_op_seq every method that is included, also one that decodes
\* to zero instructions, gets a bound (start, end) with start <= end that is
\* computed without arithmetic underflow, the bound starts right after the
\* bound of the method included before it, and positions start..end of the
\* opcode sequence hold exactly the opcodes of that method in order.
C30_MethodBounds ==
    [][/\ (run.pc = "methods" /\ run.handler = "get_op_seq") =>
              run'.pc # "panic"
       /\ BoundPushed =>
              LET bound == run'.m_bounds[Len(run'.m_bounds)]
                  s == method_seq(run.methods[run.m], 0, <<>>)
              IN /\ run'.pos > 0
                 /\ bound[1] <= bound[2]
                 /\ run.m_bounds # <<>> =>
                        bound[1] - 1 = run.m_bounds[Len(run.m_bounds)][2]
                 /\ SubSeq(run'.op_seq, bound[1] + 1, bound[2] + 1)
                        = s.current_method_seq]_vars

=============================================================================
